---- MODULE Spec2Model ----
(***************************************************************************)
(* The session bridge of pretty-code: the websocket connection handler     *)
(* (backend/main.py), the CLI runner (backend/claude_runner.py) and the    *)
(* SDK runner (backend/claude_sdk_runner.py), with the agent runtime and   *)
(* the client as the nondeterministic environment.                         *)
(*                                                                         *)
(* asyncio runs one coroutine at a time, so an action is the code between  *)
(* two suspension points of one task.  The tasks are: the connection       *)
(* handler, the streaming task (stream_claude_output driving the runner's  *)
(* run() generator), the SDK runner's background task run_sdk, and the     *)
(* runtime's task that calls the permission gate _can_use_tool.            *)
(***************************************************************************)
EXTENDS Naturals, Sequences, FiniteSets, TLC

\* ------------------------------------------------------------ values
None == "<None>"

Modes == {"default", "plan", "acceptEdits", "bypassPermissions"}
\* set_permission_mode and the permissionMode query parameter are not validated
ModeValues == Modes \cup {"yolo"}

SAFE_TOOLS ==
  {"Read", "Glob", "Grep", "WebFetch", "WebSearch",
   "ListMcpResources", "ReadMcpResource", "BashOutput", "TodoRead"}
EDIT_TOOLS == {"Edit", "Write", "NotebookEdit"}
\* every name the code tests for, a shell tool and a tool the code does not know
ToolNames == SAFE_TOOLS \cup EDIT_TOOLS \cup {"Bash", "Frobnicate"}

\* tool inputs: the two fields the correlator reads, and the rest
MkInput(f, c, o) == [file_path |-> f, command |-> c, other |-> o]
NoInput == MkInput("", "", "")

ToolUseIds == {"toolu_1", "toolu_2"}
\* what uuid4 can produce: an id the runtime never assigned
GenIds == {"toolu_gen"}
Tokens == {"sess_A", "sess_B"}

\* ------------------------------------------------------------ pure functions

\* mutant: acceptEdits treated like default
should_auto_approve_noedits(tool_name, mode) ==
  IF mode = "bypassPermissions" THEN TRUE ELSE tool_name \in SAFE_TOOLS

\* mutant: bypassPermissions is classified as default
should_auto_approve_nobypass(tool_name, mode) ==
  IF mode = "plan" THEN tool_name \in SAFE_TOOLS
  ELSE IF mode = "acceptEdits" THEN tool_name \in SAFE_TOOLS \/ tool_name \in EDIT_TOOLS
  ELSE tool_name \in SAFE_TOOLS

\* mutant: plan and default mode also auto-approve the file-edit tools
should_auto_approve_planedits(tool_name, mode) ==
  IF mode = "bypassPermissions" THEN TRUE
  ELSE tool_name \in SAFE_TOOLS \/ tool_name \in EDIT_TOOLS

should_auto_approve(tool_name, mode) ==
  IF mode = "bypassPermissions" THEN TRUE
  ELSE IF mode = "plan" THEN tool_name \in SAFE_TOOLS
  ELSE IF mode = "acceptEdits" THEN tool_name \in SAFE_TOOLS \/ tool_name \in EDIT_TOOLS
  ELSE tool_name \in SAFE_TOOLS

\* mutant: the key falls back on the other arguments
input_key_other(tool_input) ==
  IF tool_input.file_path # "" THEN tool_input.file_path
  ELSE IF tool_input.command # "" THEN tool_input.command
  ELSE tool_input.other

\* 'x or y or ""' over strings: the first non-empty one
input_key(tool_input) ==
  IF tool_input.file_path # "" THEN tool_input.file_path
  ELSE IF tool_input.command # "" THEN tool_input.command
  ELSE ""

fingerprint(tool_name, tool_input) == tool_name \o ":" \o input_key(tool_input)

\* dict.get(key) on _pending_tool_use_ids
dict_get(d, key) == IF key \in DOMAIN d THEN d[key] ELSE None

\* mutant: the first entry of a key wins
dict_set_first(d, key, id) ==
  [k \in DOMAIN d \cup {key} |-> IF k \in DOMAIN d THEN d[k] ELSE id]

\* d[key] = id
dict_set(d, key, id) == [k \in DOMAIN d \cup {key} |-> IF k = key THEN id ELSE d[k]]

\* mutant: only one key with that value is deleted
dict_del_value_one(d, id) ==
  IF \E j \in DOMAIN d : d[j] = id
  THEN LET gone == CHOOSE j \in DOMAIN d : d[j] = id
       IN  [k \in DOMAIN d \ {gone} |-> d[k]]
  ELSE d

\* mutant: a result clears the whole map
dict_del_value_all(d, id) == [k \in {} |-> None]

\* delete every key whose value is id
dict_del_value(d, id) == [k \in {j \in DOMAIN d : d[j] # id} |-> d[k]]

EmptyDict == [k \in {} |-> None]

\* PermissionResultAllow / PermissionResultDeny (interrupt defaults to False)
PermissionResultAllow(updated_input) ==
  [behavior |-> "allow", updated_input |-> updated_input, message |-> "", interrupt |-> FALSE]
PermissionResultDeny(message, interrupt) ==
  [behavior |-> "deny", updated_input |-> NoInput, message |-> message, interrupt |-> interrupt]
NoResult == [behavior |-> None, updated_input |-> NoInput, message |-> "", interrupt |-> FALSE]

\* outbound events, one record shape for all
Ev(type, subtype, id, tool, input, sid) ==
  [type |-> type, subtype |-> subtype, tool_use_id |-> id, tool |-> tool,
   input |-> input, session_id |-> sid]
\* no event: the generator is not at a yield
NoEvent == Ev(None, None, None, None, NoInput, None)
SystemEvent(subtype) == Ev("system", subtype, None, None, NoInput, None)
InitEvent(sid) == Ev("system", "init", None, None, NoInput, sid)
PermissionRequestEvent(p) == Ev("permission_request", None, p.tool_use_id, p.tool_name, p.tool_input, None)

\* runtime messages: one content block per message
AssistantText == [kind |-> "assistant", block |-> "text", id |-> None, name |-> None, input |-> NoInput, token |-> None]
AssistantToolUse(id, name, input) ==
  [kind |-> "assistant", block |-> "tool_use", id |-> id, name |-> name, input |-> input, token |-> None]
UserToolResult(id) ==
  [kind |-> "user", block |-> "tool_result", id |-> id, name |-> None, input |-> NoInput, token |-> None]
ResultMessage(token) ==
  [kind |-> "result", block |-> None, id |-> None, name |-> None, input |-> NoInput, token |-> token]

\* ------------------------------------------------------------ state
VARIABLES
  kind,                     \* "sdk" or "cli": the runner class behind `runner`
  permission_mode,          \* runner.permission_mode
  session_id,               \* runner.session_id
  client,                   \* ClaudeSDKRunner._client is not None
  pending_permission,       \* _pending_permission: None, or the future's state
  stop_requested,           \* _stop_requested
  current_tool_use_id,      \* _current_tool_use_id
  permission_event_queue,   \* _permission_event_queue
  pending_tool_use_ids,     \* _pending_tool_use_ids
  message_queue,            \* run()'s local message_queue
  sdk_done,                 \* run()'s local sdk_done event
  sdk_task,                 \* run_sdk's position: none, start, recv, done
  sdk_cancel,               \* sdk_task.cancel() requested and not yet delivered
  gate,                     \* the runtime's call of _can_use_tool
  gate_result,              \* what the last gate call returned
  process,                  \* ClaudeCodeRunner.process: none, alive, dead
  yielded,                  \* the event dict the CLI runner's run() last yielded
  ws,                       \* the connection handler's position
  ws_open,                  \* the websocket can still send
  ws_stop_requested,        \* websocket_endpoint's stop_requested
  streaming_task,           \* none, running, done
  task_cancel,              \* streaming_task.cancel() requested and not yet delivered
  run_pc,                   \* position of run() inside the streaming task
  out,                      \* events run() has yielded in this turn
  sent,                     \* events sent to the client since the turn began
  turn, nmsg, nctl          \* counters that bound the environment

sdkVars == <<client, pending_permission, stop_requested, current_tool_use_id,
             permission_event_queue, pending_tool_use_ids, message_queue,
             sdk_done, sdk_task, sdk_cancel>>
gateVars == <<gate, gate_result>>
cliVars == <<process, yielded>>
wsVars == <<ws, ws_open, ws_stop_requested>>
taskVars == <<streaming_task, task_cancel, run_pc>>
envVars == <<turn, nmsg, nctl>>
vars == <<kind, permission_mode, session_id, sdkVars, gateVars, cliVars, wsVars, taskVars,
          out, sent, envVars>>

\* displaced: an earlier call is still suspended on a future that is no longer
\* in the wait slot
IdleGate == [pc |-> "idle", tool_name |-> None, tool_input |-> NoInput, cancel |-> FALSE,
             displaced |-> FALSE]

Init ==
  /\ kind \in {"sdk", "cli"}
  /\ permission_mode \in ModeValues
  /\ session_id \in Tokens \cup {None}
  /\ client = FALSE
  /\ pending_permission = None
  /\ stop_requested = FALSE
  /\ current_tool_use_id = None
  /\ permission_event_queue = <<>>
  /\ pending_tool_use_ids = EmptyDict
  /\ message_queue = <<>>
  /\ sdk_done = FALSE
  /\ sdk_task = "none"
  /\ sdk_cancel = FALSE
  /\ gate = IdleGate
  /\ gate_result = NoResult
  /\ process = "none"
  /\ yielded = NoEvent
  /\ ws = "outer"
  /\ ws_open = TRUE
  /\ ws_stop_requested = FALSE
  /\ streaming_task = "none"
  /\ task_cancel = FALSE
  /\ run_pc = "none"
  /\ out = <<>>
  /\ sent = <<>>
  /\ turn = 0
  /\ nmsg = 0
  /\ nctl = 0

\* ------------------------------------------------------------ permission gate
\* ClaudeSDKRunner._can_use_tool, called by the agent runtime before a tool runs.

\* mutant: the tracked id is never found
resolve_generated(tool_name, tool_input) == GenIds

\* mutant: a miss is not replaced by a generated id
resolve_nofallback(tool_name, tool_input) ==
  {dict_get(pending_tool_use_ids, fingerprint(tool_name, tool_input))}

\* the ids the lookup at lines 120-131 can end with: the tracked one, or a generated one
resolve(tool_name, tool_input) ==
  LET id == dict_get(pending_tool_use_ids, fingerprint(tool_name, tool_input))
  IN  IF id = None \/ id = "" THEN GenIds ELSE {id}

\* mutant: the stop flag is consulted after the auto-approve test
GateDecision_autofirst(tool_name, mode, stopped) ==
  IF should_auto_approve(tool_name, mode) THEN "auto"
  ELSE IF stopped THEN "stopped"
  ELSE "ask"

\* mutant: nothing is auto-approved
GateDecision_askall(tool_name, mode, stopped) ==
  IF stopped THEN "stopped" ELSE "ask"

\* lines 113-118: which way the gate goes
GateDecision(tool_name, mode, stopped) ==
  IF stopped THEN "stopped"
  ELSE IF should_auto_approve(tool_name, mode) THEN "auto"
  ELSE "ask"

\* lines 99-150: the runtime calls the gate with (tool_name, tool_input), and the
\* body runs up to the await of the future.  The runtime makes one call at a
\* time: it blocks the tool until the gate returns.
CanUseTool(tool_name, tool_input) ==
  /\ kind = "sdk"
  /\ sdk_task = "recv"
  /\ gate.pc = "idle"
  /\ UNCHANGED <<kind, cliVars, permission_mode, session_id, client, stop_requested,
                 pending_tool_use_ids, message_queue, sdk_done, sdk_task, sdk_cancel,
                 wsVars, taskVars, out, sent, envVars>>
  /\ LET d == GateDecision(tool_name, permission_mode, stop_requested) IN
     IF d = "stopped"
     THEN /\ gate_result' = PermissionResultDeny("Operation stopped by user", TRUE)
          /\ UNCHANGED <<gate, current_tool_use_id, pending_permission,
                         permission_event_queue>>
     ELSE IF d = "auto"
     THEN /\ gate_result' = PermissionResultAllow(tool_input)
          /\ UNCHANGED <<gate, current_tool_use_id, pending_permission,
                         permission_event_queue>>
     ELSE \E id \in resolve(tool_name, tool_input) :
          /\ current_tool_use_id' = id
          /\ pending_permission' = "pending"
          /\ permission_event_queue' =
               Append(permission_event_queue,
                      [tool_use_id |-> id, tool_name |-> tool_name,
                       tool_input |-> tool_input])
          /\ gate' = [pc |-> "waiting", tool_name |-> tool_name,
                      tool_input |-> tool_input, cancel |-> FALSE,
                      displaced |-> gate.displaced]
          /\ UNCHANGED gate_result

\* lines 99-145 for a call made while an earlier call's wait is unresolved: the
\* SDK runs each permission callback in a task of its own.  Line 137 puts a new
\* future into the slot; the earlier call keeps waiting on its own future.
CanUseToolConcurrent(tool_name, tool_input) ==
  /\ kind = "sdk"
  /\ sdk_task = "recv"
  /\ gate.pc = "waiting"
  /\ ~gate.cancel
  /\ pending_permission = "pending"
  /\ UNCHANGED <<kind, cliVars, permission_mode, session_id, client, stop_requested,
                 pending_tool_use_ids, message_queue, sdk_done, sdk_task, sdk_cancel,
                 wsVars, taskVars, out, sent, envVars>>
  /\ LET d == GateDecision(tool_name, permission_mode, stop_requested) IN
     IF d = "stopped"
     THEN /\ gate_result' = PermissionResultDeny("Operation stopped by user", TRUE)
          /\ UNCHANGED <<gate, current_tool_use_id, pending_permission,
                         permission_event_queue>>
     ELSE IF d = "auto"
     THEN /\ gate_result' = PermissionResultAllow(tool_input)
          /\ UNCHANGED <<gate, current_tool_use_id, pending_permission,
                         permission_event_queue>>
     ELSE \E id \in resolve(tool_name, tool_input) :
          /\ current_tool_use_id' = id
          /\ pending_permission' = "pending"
          /\ permission_event_queue' =
               Append(permission_event_queue,
                      [tool_use_id |-> id, tool_name |-> tool_name,
                       tool_input |-> tool_input])
          /\ gate' = [pc |-> "waiting", tool_name |-> tool_name,
                      tool_input |-> tool_input, cancel |-> FALSE,
                      displaced |-> TRUE]
          /\ UNCHANGED gate_result

\* the future is done, or the gate's task was cancelled: the await returns or raises
GateReady ==
  /\ gate.pc = "waiting"
  /\ (gate.cancel \/ pending_permission \in {"True", "False", "cancelled"})

\* mutant: a denial interrupts the turn
GateOutcome_interrupt(fut, cancelled, tool_input) ==
  IF cancelled \/ fut \notin {"True", "False"} THEN PermissionResultDeny("Cancelled", FALSE)
  ELSE IF fut = "True" THEN PermissionResultAllow(tool_input)
  ELSE PermissionResultDeny("User denied permission", TRUE)

\* lines 148-167: what the gate returns once the await ends
GateOutcome(fut, cancelled, tool_input) ==
  IF cancelled \/ fut \notin {"True", "False"} THEN PermissionResultDeny("Cancelled", FALSE)
  ELSE IF fut = "True" THEN PermissionResultAllow(tool_input)
  ELSE PermissionResultDeny("User denied permission", FALSE)

\* mutant: the finally clause clears the slot and leaves the id
CanUseToolResume_halfclear ==
  /\ GateReady
  /\ gate_result' = GateOutcome(pending_permission, gate.cancel, gate.tool_input)
  /\ pending_permission' = None
  /\ gate' = [IdleGate EXCEPT !.displaced = gate.displaced]
  /\ UNCHANGED <<kind, cliVars, permission_mode, session_id, client, stop_requested,
                 current_tool_use_id, permission_event_queue, pending_tool_use_ids,
                 message_queue, sdk_done, sdk_task, sdk_cancel, wsVars, taskVars,
                 out, sent, envVars>>

\* lines 150-167: the gate resumes; the finally clause clears the slot and the id
CanUseToolResume ==
  /\ GateReady
  /\ gate_result' = GateOutcome(pending_permission, gate.cancel, gate.tool_input)
  /\ pending_permission' = None
  /\ current_tool_use_id' = None
  /\ gate' = [IdleGate EXCEPT !.displaced = gate.displaced]
  /\ UNCHANGED <<kind, cliVars, permission_mode, session_id, client, stop_requested,
                 permission_event_queue, pending_tool_use_ids, message_queue,
                 sdk_done, sdk_task, sdk_cancel, wsVars, taskVars, out, sent, envVars>>

\* the client's disconnect (leaving `async with ClaudeSDKClient`) cancels the
\* runtime task that is inside the callback
GateAfterDisconnect(g) ==
  [g EXCEPT !.cancel = (g.pc = "waiting"), !.displaced = FALSE]

\* ------------------------------------------------------------ SDK runner methods
\* The parts of the runner's methods that run before their first suspension,
\* as constraints on the runner's fields; the handler's actions use them.

\* mutant: a decision replaces the result of a wait that is already over
FutureAfterResponse_overwrite(fut, tool_use_id, allowed) ==
  IF allowed THEN "True" ELSE "False"

\* lines 452-459: send_permission_response never reads tool_use_id
FutureAfterResponse(fut, tool_use_id, allowed) ==
  IF fut = "pending" THEN (IF allowed THEN "True" ELSE "False") ELSE fut

\* mutant: stop() leaves the wait alone
FutureAfterStop_keep(fut) == fut

\* lines 476-477: stop() cancels a future that is not done
FutureAfterStop(fut) == IF fut = "pending" THEN "cancelled" ELSE fut

\* ------------------------------------------------------------ run_sdk
\* ClaudeSDKRunner.run.run_sdk, the background task of one turn.

\* _transform_message: the events of one runtime message
transform_events(m) ==
  IF m.kind = "assistant" THEN <<Ev("assistant", m.block, m.id, m.name, m.input, None)>>
  ELSE IF m.kind = "user" THEN <<Ev("user", m.block, m.id, None, NoInput, None)>>
  ELSE IF m.kind = "result" THEN <<Ev("result", "success", None, None, NoInput, m.token)>>
  ELSE <<>>

\* _transform_message: what it does to _pending_tool_use_ids
transform_tracking(d, m) ==
  IF m.kind = "assistant" /\ m.block = "tool_use"
  THEN dict_set(d, fingerprint(m.name, m.input), m.id)
  ELSE IF m.kind = "user" /\ m.block = "tool_result" THEN dict_del_value(d, m.id)
  ELSE d

\* mutant: the token of every result event is stored, an empty one included
captured_session_any(sid, e) ==
  IF e.type = "result" THEN e.session_id ELSE sid

\* lines 285-286
captured_session(sid, e) ==
  IF e.type = "result" /\ e.session_id \notin {None, ""} THEN e.session_id ELSE sid

\* mutant: run_sdk ends without setting the completion signal
RunSdkEnds_nodone ==
  /\ sdk_task' = "done"
  /\ sdk_cancel' = FALSE
  /\ gate' = GateAfterDisconnect(gate)
  /\ UNCHANGED sdk_done

\* run_sdk returns: the finally clause sets sdk_done, the client disconnects
RunSdkEnds ==
  /\ sdk_done' = TRUE
  /\ sdk_task' = "done"
  /\ sdk_cancel' = FALSE
  /\ gate' = GateAfterDisconnect(gate)

\* lines 243-262: connect and send the query
RunSdkConnect ==
  /\ kind = "sdk"
  /\ sdk_task = "start"
  /\ ~sdk_cancel
  /\ \/ /\ client' = TRUE
        /\ sdk_task' = "recv"
        /\ UNCHANGED <<message_queue, sdk_done, sdk_cancel, gate>>
     \/ \* the SDK cannot be started: lines 290-301
        /\ message_queue' = Append(message_queue, SystemEvent("error"))
        /\ RunSdkEnds
        /\ UNCHANGED client
  /\ UNCHANGED <<kind, cliVars, permission_mode, session_id, pending_permission, stop_requested,
                 current_tool_use_id, permission_event_queue, pending_tool_use_ids,
                 gate_result, wsVars, taskVars, out, sent, envVars>>

\* lines 267-289: one message of client.receive_response()
RunSdkReceive(m, max_msgs) ==
  /\ kind = "sdk"
  /\ sdk_task = "recv"
  /\ ~sdk_cancel
  /\ nmsg < max_msgs
  /\ nmsg' = nmsg + 1
  /\ IF stop_requested
     THEN /\ message_queue' = Append(message_queue, SystemEvent("stopped"))
          /\ client' = FALSE
          /\ RunSdkEnds
          /\ UNCHANGED <<pending_tool_use_ids, session_id>>
     ELSE /\ pending_tool_use_ids' = transform_tracking(pending_tool_use_ids, m)
          /\ message_queue' = message_queue \o transform_events(m)
          /\ session_id' = IF transform_events(m) = <<>> THEN session_id
                           ELSE captured_session(session_id, Head(transform_events(m)))
          /\ IF m.kind = "result"
             THEN client' = FALSE /\ RunSdkEnds
             ELSE UNCHANGED <<client, sdk_done, sdk_task, sdk_cancel, gate>>
  /\ UNCHANGED <<kind, cliVars, permission_mode, pending_permission, stop_requested,
                 current_tool_use_id, permission_event_queue, gate_result, wsVars,
                 taskVars, out, sent, turn, nctl>>

\* lines 290-301: the runtime raises while the turn is streamed
RunSdkError ==
  /\ kind = "sdk"
  /\ sdk_task = "recv"
  /\ ~sdk_cancel
  /\ message_queue' = Append(message_queue, SystemEvent("error"))
  /\ RunSdkEnds
  /\ UNCHANGED <<kind, cliVars, permission_mode, session_id, client, pending_permission,
                 stop_requested, current_tool_use_id, permission_event_queue,
                 pending_tool_use_ids, gate_result, wsVars, taskVars, out, sent, envVars>>

\* sdk_task.cancel() is delivered: CancelledError passes `except Exception`,
\* the finally clause (lines 299-301) runs
RunSdkCancelled ==
  /\ kind = "sdk"
  /\ sdk_cancel
  /\ sdk_task \in {"start", "recv"}
  /\ RunSdkEnds
  /\ UNCHANGED <<kind, cliVars, permission_mode, session_id, client, pending_permission,
                 stop_requested, current_tool_use_id, permission_event_queue,
                 pending_tool_use_ids, message_queue, gate_result, wsVars, taskVars,
                 out, sent, envVars>>

\* ------------------------------------------------------------ streaming task
\* websocket_endpoint.stream_claude_output iterating runner.run().  The consumer
\* and the generator run in one task: a yield hands the event to the loop body
\* of stream_claude_output, whose send_json is the next suspension point.

\* main.py 463-465: the handler overwrites the result event's session_id
attach_session(e, sid) ==
  IF e.type = "result" /\ sid \notin {None, ""} THEN [e EXCEPT !.session_id = sid] ELSE e

\* mutant: the consumer keeps sending after a stop
ConsumerStops_never(stop_flag, open) == ~open

\* main.py 461-462 and 467-473: the loop ends on the handler's stop flag; a send
\* on a closed websocket raises, and so does the send of the error event
ConsumerStops(stop_flag, open) == stop_flag \/ ~open

\* main.py 460-466: the loop body for one yielded event
Deliver(e, next_pc, dropped_pc) ==
  IF ConsumerStops(ws_stop_requested, ws_open)
  THEN /\ streaming_task' = "done"
       /\ run_pc' = dropped_pc
       /\ UNCHANGED sent
  ELSE /\ sent' = Append(sent, attach_session(e, session_id))
       /\ run_pc' = next_pc
       /\ UNCHANGED streaming_task

Yield(e, next_pc) ==
  /\ out' = Append(out, e)
  /\ Deliver(e, next_pc, "abandoned")

\* mutant: the queue hands out its newest item
queue_get_lifo(q) == <<q[Len(q)], SubSeq(q, 1, Len(q) - 1)>>

\* lines 316 and 331: asyncio.Queue.get / get_nowait on a non-empty queue, as
\* <<item, remaining queue>>
queue_get(q) == <<Head(q), Tail(q)>>

\* mutant: the loop ends as soon as the background task is done
LoopContinues_doneonly(done, mq, pq) == ~done

\* line 310: the multiplexer loop's condition
LoopContinues(done, mq, pq) == ~done \/ mq # <<>> \/ pq # <<>>

\* lines 310-327 and 348-355: the loop test, the non-blocking read of the
\* permission queue, and the normal end of run()
LoopTop(done, mq) ==
  IF ~LoopContinues(done, mq, permission_event_queue)
  THEN /\ run_pc' = "end"
       /\ streaming_task' = "done"
       /\ UNCHANGED <<permission_event_queue, out, sent>>
  ELSE IF permission_event_queue # <<>>
  THEN /\ permission_event_queue' = queue_get(permission_event_queue)[2]
       /\ Yield(PermissionRequestEvent(queue_get(permission_event_queue)[1]), "y_perm")
  ELSE /\ run_pc' = "poll"
       /\ UNCHANGED <<permission_event_queue, out, sent, streaming_task>>

SdkStep == kind = "sdk" /\ streaming_task = "running" /\ ~task_cancel

\* mutant: run() keeps the permission requests left from the previous turn
RunBegin_keepqueue ==
  /\ SdkStep
  /\ run_pc = "start"
  /\ stop_requested' = FALSE
  /\ out' = <<InitEvent(session_id)>>
  /\ Deliver(InitEvent(session_id), "y_init", "end")
  /\ UNCHANGED <<kind, cliVars, permission_mode, session_id, client, pending_permission,
                 current_tool_use_id, permission_event_queue, pending_tool_use_ids,
                 message_queue, sdk_done, sdk_task, sdk_cancel, gateVars, wsVars,
                 task_cancel, envVars>>

\* mutant: run() leaves the stop flag as the previous turn left it
RunBegin_sticky ==
  /\ SdkStep
  /\ run_pc = "start"
  /\ permission_event_queue' = <<>>
  /\ out' = <<InitEvent(session_id)>>
  /\ Deliver(InitEvent(session_id), "y_init", "end")
  /\ UNCHANGED <<kind, cliVars, permission_mode, session_id, client, pending_permission,
                 stop_requested, current_tool_use_id, pending_tool_use_ids,
                 message_queue, sdk_done, sdk_task, sdk_cancel, gateVars, wsVars,
                 task_cancel, envVars>>

\* lines 180-233: run() up to the init event
RunBegin ==
  /\ SdkStep
  /\ run_pc = "start"
  /\ stop_requested' = FALSE
  /\ permission_event_queue' = <<>>
  /\ out' = <<InitEvent(session_id)>>
  /\ Deliver(InitEvent(session_id), "y_init", "end")
  /\ UNCHANGED <<kind, cliVars, permission_mode, session_id, client, pending_permission,
                 current_tool_use_id, pending_tool_use_ids, message_queue, sdk_done,
                 sdk_task, sdk_cancel, gateVars, wsVars, task_cancel, envVars>>

\* lines 235-304 and the first loop test: the queue and the background task are created
RunSpawn ==
  /\ SdkStep
  /\ run_pc = "y_init"
  /\ message_queue' = <<>>
  /\ sdk_done' = FALSE
  /\ sdk_task' = "start"
  /\ sdk_cancel' = FALSE
  /\ LoopTop(FALSE, <<>>)
  /\ UNCHANGED <<kind, cliVars, permission_mode, session_id, client, pending_permission,
                 stop_requested, current_tool_use_id, pending_tool_use_ids, gateVars,
                 wsVars, task_cancel, envVars>>

\* the generator is resumed after a message event, or finds no message within
\* the poll's timeout, and goes round the loop
RunLoop ==
  /\ SdkStep
  /\ \/ run_pc = "y_msg"
     \/ run_pc = "poll" /\ message_queue = <<>>
  /\ LoopTop(sdk_done, message_queue)
  /\ UNCHANGED <<kind, cliVars, permission_mode, session_id, client, pending_permission,
                 stop_requested, current_tool_use_id, pending_tool_use_ids,
                 message_queue, sdk_done, sdk_task, sdk_cancel, gateVars, wsVars,
                 task_cancel, envVars>>

\* the generator is resumed after a permission_request event: on to the poll
RunAfterPermission ==
  /\ SdkStep
  /\ run_pc = "y_perm"
  /\ run_pc' = "poll"
  /\ UNCHANGED <<kind, cliVars, permission_mode, session_id, sdkVars, gateVars, wsVars,
                 streaming_task, task_cancel, out, sent, envVars>>

\* lines 329-335: the poll of the message queue returns an event
RunPoll ==
  /\ SdkStep
  /\ run_pc = "poll"
  /\ message_queue # <<>>
  /\ message_queue' = queue_get(message_queue)[2]
  /\ Yield(queue_get(message_queue)[1], "y_msg")
  /\ UNCHANGED <<kind, cliVars, permission_mode, session_id, client, pending_permission,
                 stop_requested, current_tool_use_id, permission_event_queue,
                 pending_tool_use_ids, sdk_done, sdk_task, sdk_cancel, gateVars,
                 wsVars, task_cancel, envVars>>

\* mutant: run() ends without cancelling its background task
RunFinally_nocancel(next_task) ==
  /\ run_pc' = "end"
  /\ streaming_task' = next_task
  /\ UNCHANGED sdk_cancel

\* lines 348-355: the finally clause of run(), entered with the loop not finished
RunFinally(next_task) ==
  IF sdk_task \in {"start", "recv"}
  THEN /\ sdk_cancel' = TRUE
       /\ run_pc' = "fin"
       /\ UNCHANGED streaming_task
  ELSE /\ run_pc' = "end"
       /\ streaming_task' = next_task
       /\ UNCHANGED sdk_cancel

\* streaming_task.cancel() is delivered at the task's suspension point
TaskCancelled ==
  /\ streaming_task = "running"
  /\ task_cancel
  /\ run_pc # "fin"
  /\ task_cancel' = FALSE
  /\ IF kind = "cli" \/ run_pc \in {"start", "y_init"}
     THEN run_pc' = "end" /\ streaming_task' = "done" /\ UNCHANGED sdk_cancel
     ELSE IF run_pc \in {"y_perm", "y_msg"}
     THEN run_pc' = "abandoned" /\ streaming_task' = "done" /\ UNCHANGED sdk_cancel
     ELSE RunFinally("done")
  /\ UNCHANGED <<kind, cliVars, permission_mode, session_id, client, pending_permission,
                 stop_requested, current_tool_use_id, permission_event_queue,
                 pending_tool_use_ids, message_queue, sdk_done, sdk_task, gateVars,
                 wsVars, out, sent, envVars>>

\* the abandoned generator is finalized (aclose): GeneratorExit at the yield
\* runs the finally clause of run()
RunClosed ==
  /\ kind = "sdk"
  /\ run_pc = "abandoned"
  /\ RunFinally(streaming_task)
  /\ UNCHANGED <<kind, cliVars, permission_mode, session_id, client, pending_permission,
                 stop_requested, current_tool_use_id, permission_event_queue,
                 pending_tool_use_ids, message_queue, sdk_done, sdk_task, gateVars,
                 wsVars, task_cancel, out, sent, envVars>>

\* lines 352-355: the awaited background task has ended
RunFinallyDone ==
  /\ kind = "sdk"
  /\ run_pc = "fin"
  /\ sdk_task = "done"
  /\ run_pc' = "end"
  /\ streaming_task' = "done"
  /\ UNCHANGED <<kind, cliVars, permission_mode, session_id, sdkVars, gateVars, wsVars,
                 task_cancel, out, sent, envVars>>

\* ------------------------------------------------------------ CLI runner
\* ClaudeCodeRunner.run (claude_runner.py 73-185) inside the streaming task.

CliEvents ==
  {Ev("assistant", "text", None, None, NoInput, None),
   Ev("user", "tool_result", "toolu_1", None, NoInput, None)}
    \cup {Ev("result", "success", None, None, NoInput, t) : t \in Tokens \cup {""}}

CliStep == kind = "cli" /\ streaming_task = "running" /\ ~task_cancel

\* A yield of the CLI runner: the consumer's loop body works on the very dict
\* the generator yielded, so the generator sees the handler's overwrite when it
\* is resumed.  An abandoned generator has nothing to clean up.
CliYield(e, next_pc) ==
  /\ out' = Append(out, e)
  /\ IF ConsumerStops(ws_stop_requested, ws_open)
     THEN /\ streaming_task' = "done"
          /\ run_pc' = "end"
          /\ yielded' = NoEvent
          /\ UNCHANGED sent
     ELSE /\ sent' = Append(sent, attach_session(e, session_id))
          /\ yielded' = attach_session(e, session_id)
          /\ run_pc' = next_pc
          /\ UNCHANGED streaming_task

\* lines 82-116: the process is started if it is not running, and the user
\* message is written to it
CliBegin ==
  /\ CliStep
  /\ run_pc = "start"
  /\ \/ /\ process' = "alive"
        /\ run_pc' = "read"
        /\ UNCHANGED <<streaming_task, yielded, out, sent>>
     \/ \* _ensure_process returns False: lines 84-89
        /\ process # "alive"
        /\ CliYield(SystemEvent("error"), "y_last")
        /\ UNCHANGED process
  /\ UNCHANGED <<kind, permission_mode, session_id, sdkVars, gateVars, wsVars,
                 task_cancel, envVars>>

\* lines 119-164: one round of the read loop
CliRead(max_msgs) ==
  /\ CliStep
  /\ run_pc = "read"
  /\ \/ \* a line of output: lines 160-164
        /\ process = "alive"
        /\ nmsg < max_msgs
        /\ nmsg' = nmsg + 1
        /\ \E e \in CliEvents : CliYield(e, "y_ev")
     \/ \* the process is gone, or its stdout is at end of file: lines 121, 156
        /\ process # "alive"
        /\ run_pc' = "end"
        /\ streaming_task' = "done"
        /\ UNCHANGED <<yielded, out, sent, nmsg>>
     \/ \* the process has exited: lines 125-140
        /\ process = "dead"
        /\ CliYield(SystemEvent("error"), "y_last")
        /\ UNCHANGED nmsg
  /\ UNCHANGED <<kind, permission_mode, session_id, sdkVars, gateVars, process, wsVars,
                 task_cancel, turn, nctl>>

\* mutant: run() captures the token before it yields the result event
CliCaptured_early(sid, e) == sid

\* lines 166-171: the generator reads the dict it yielded
CliCaptured(sid, e) == captured_session(sid, e)

\* mutant: a result event does not end the read loop
CliResume_late ==
  /\ CliStep
  /\ run_pc \in {"y_ev", "y_last"}
  /\ yielded' = NoEvent
  /\ IF run_pc = "y_last"
     THEN /\ run_pc' = "end"
          /\ streaming_task' = "done"
          /\ UNCHANGED session_id
     ELSE /\ run_pc' = "read"
          /\ session_id' = IF yielded.type = "result"
                           THEN CliCaptured(session_id, yielded) ELSE session_id
          /\ UNCHANGED streaming_task
  /\ UNCHANGED <<kind, permission_mode, sdkVars, gateVars, process, wsVars,
                 task_cancel, out, sent, envVars>>

\* lines 166-171: the generator is resumed after an event; a result ends the turn
CliResume ==
  /\ CliStep
  /\ run_pc \in {"y_ev", "y_last"}
  /\ yielded' = NoEvent
  /\ IF run_pc = "y_last" \/ yielded.type = "result"
     THEN /\ run_pc' = "end"
          /\ streaming_task' = "done"
          /\ session_id' = IF run_pc = "y_last" THEN session_id
                           ELSE CliCaptured(session_id, yielded)
     ELSE /\ run_pc' = "read"
          /\ UNCHANGED <<streaming_task, session_id>>
  /\ UNCHANGED <<kind, permission_mode, sdkVars, gateVars, process, wsVars,
                 task_cancel, out, sent, envVars>>

\* ------------------------------------------------------------ connection handler
\* websocket_endpoint (main.py 436-601).  `runner` is a ClaudeCodeRunner in
\* main.py; the SDK runner has the same methods, and kind = "sdk" is the handler
\* driving it.

\* mutant: stop() flips the stop flag
RunnerStop_toggle ==
  /\ stop_requested' = IF kind = "sdk" THEN ~stop_requested ELSE stop_requested
  /\ pending_permission' =
       IF kind = "sdk" THEN FutureAfterStop(pending_permission) ELSE pending_permission
  /\ process' = IF kind = "cli" /\ process = "alive" THEN "dead" ELSE process

\* runner.stop() up to its suspension point
\* (claude_sdk_runner.py 472-479, claude_runner.py 217-222)
RunnerStop ==
  /\ stop_requested' = IF kind = "sdk" THEN TRUE ELSE stop_requested
  /\ pending_permission' =
       IF kind = "sdk" THEN FutureAfterStop(pending_permission) ELSE pending_permission
  /\ process' = IF kind = "cli" /\ process = "alive" THEN "dead" ELSE process

\* runner.stop() after its suspension point (claude_runner.py 225)
RunnerStopReturns ==
  process' = IF kind = "cli" THEN "none" ELSE process

\* The event loop runs a task whose awaited future is done before it polls the
\* socket again: a control message is never received while the gate is ready to
\* resume.
Receiving == ws \in {"outer", "inner"} /\ ~GateReady

Control(max_ctl) == Receiving /\ nctl < max_ctl /\ nctl' = nctl + 1

\* main.py 482-500: a message control starts a turn (outside a turn only); the
\* previous turn's generator and background task have been finalized
ReceiveMessage(max_turns) ==
  /\ Receiving
  /\ ws = "outer"
  /\ turn < max_turns
  /\ run_pc \in {"none", "end"}
  /\ sdk_task \in {"none", "done"}
  /\ gate.pc = "idle"
  /\ turn' = turn + 1
  /\ nmsg' = 0
  /\ ws_stop_requested' = FALSE
  /\ streaming_task' = "running"
  /\ task_cancel' = FALSE
  /\ run_pc' = "start"
  /\ yielded' = NoEvent
  /\ out' = <<>>
  /\ sent' = <<>>
  /\ ws' = "inner"
  /\ gate_result' = NoResult
  /\ UNCHANGED <<kind, permission_mode, session_id, sdkVars, gate, process,
                 ws_open, nctl>>

\* mutant: the inner loop ends while the streaming task is running
TurnOver_early ==
  /\ ws = "inner"
  /\ ws' = "outer"
  /\ UNCHANGED <<kind, permission_mode, session_id, sdkVars, gateVars, cliVars,
                 ws_open, ws_stop_requested, taskVars, out, sent, envVars>>

\* main.py 503 and 546-548: the inner loop ends with the streaming task
TurnOver ==
  /\ ws = "inner"
  /\ streaming_task = "done"
  /\ ws' = "outer"
  /\ UNCHANGED <<kind, permission_mode, session_id, sdkVars, gateVars, cliVars,
                 ws_open, ws_stop_requested, taskVars, out, sent, envVars>>

\* main.py 510-512 and 563-565: stop, up to the suspension inside runner.stop()
ReceiveStop(max_ctl) ==
  /\ Control(max_ctl)
  /\ ws_stop_requested' = TRUE
  /\ RunnerStop
  /\ ws' = "stopping"
  /\ UNCHANGED <<kind, permission_mode, session_id, client, current_tool_use_id,
                 permission_event_queue, pending_tool_use_ids, message_queue,
                 sdk_done, sdk_task, sdk_cancel, gateVars, yielded, ws_open,
                 taskVars, out, sent, turn, nmsg>>

\* main.py 513 and 566-567: runner.stop() has returned; the task is cancelled
StopCancelsTask ==
  /\ ws = "stopping"
  /\ RunnerStopReturns
  /\ task_cancel' = (streaming_task = "running")
  /\ ws' = "awaiting_task"
  /\ UNCHANGED <<kind, permission_mode, session_id, sdkVars, gateVars, yielded,
                 ws_open, ws_stop_requested, streaming_task, run_pc, out, sent, envVars>>

\* mutant: the handler forgets the stopped event
StopSendsStopped_silent ==
  /\ ws = "awaiting_task"
  /\ streaming_task # "running"
  /\ ws' = "outer"
  /\ UNCHANGED <<kind, permission_mode, session_id, sdkVars, gateVars, cliVars,
                 ws_open, ws_stop_requested, taskVars, out, sent, envVars>>

\* main.py 514-523 and 568-576: the task has ended; the stopped event is sent
StopSendsStopped ==
  /\ ws = "awaiting_task"
  /\ streaming_task # "running"
  /\ sent' = Append(sent, SystemEvent("stopped"))
  /\ ws' = "outer"
  /\ UNCHANGED <<kind, permission_mode, session_id, sdkVars, gateVars, cliVars,
                 ws_open, ws_stop_requested, taskVars, out, envVars>>

\* main.py 524-527 and 550-553
ReceivePermissionResponse(tool_use_id, allowed, max_ctl) ==
  /\ Control(max_ctl)
  /\ pending_permission' =
       IF kind = "sdk" THEN FutureAfterResponse(pending_permission, tool_use_id, allowed)
       ELSE pending_permission
  /\ UNCHANGED <<kind, permission_mode, session_id, client, stop_requested,
                 current_tool_use_id, permission_event_queue, pending_tool_use_ids,
                 message_queue, sdk_done, sdk_task, sdk_cancel, gateVars, cliVars,
                 wsVars, taskVars, out, sent, turn, nmsg>>

\* main.py 478 and 550-553: a permission_response that was already buffered on
\* the socket when the previous control was handled: receive_text() returns it
\* without suspending, so a gate whose wait has just ended has not resumed yet
ReceivePermissionResponseBuffered(tool_use_id, allowed, max_ctl) ==
  /\ ws \in {"outer", "inner"}
  /\ GateReady
  /\ nctl < max_ctl
  /\ nctl' = nctl + 1
  /\ pending_permission' =
       IF kind = "sdk" THEN FutureAfterResponse(pending_permission, tool_use_id, allowed)
       ELSE pending_permission
  /\ UNCHANGED <<kind, permission_mode, session_id, client, stop_requested,
                 current_tool_use_id, permission_event_queue, pending_tool_use_ids,
                 message_queue, sdk_done, sdk_task, sdk_cancel, gateVars, cliVars,
                 wsVars, taskVars, out, sent, turn, nmsg>>

\* main.py 528-533 and 555-561: question_response and continue reach the
\* runtime only; a type the branch does not know (a message control during a
\* turn included) is dropped
ReceiveOther(max_ctl) ==
  /\ Control(max_ctl)
  /\ UNCHANGED <<kind, permission_mode, session_id, sdkVars, gateVars, cliVars,
                 wsVars, taskVars, out, sent, turn, nmsg>>

\* mutant: a mode change releases a suspended gate call that the new mode
\* would auto-approve
ReceiveSetPermissionMode_retro(mode, max_ctl) ==
  /\ Control(max_ctl)
  /\ permission_mode' = mode
  /\ sent' = Append(sent, SystemEvent("config"))
  /\ pending_permission' =
       IF gate.pc = "waiting" /\ pending_permission = "pending"
          /\ should_auto_approve(gate.tool_name, mode)
       THEN "True" ELSE pending_permission
  /\ UNCHANGED <<kind, session_id, client, stop_requested, current_tool_use_id,
                 permission_event_queue, pending_tool_use_ids, message_queue,
                 sdk_done, sdk_task, sdk_cancel, gateVars, cliVars, wsVars,
                 taskVars, out, turn, nmsg>>

\* main.py 534-541 and 578-585
ReceiveSetPermissionMode(mode, max_ctl) ==
  /\ Control(max_ctl)
  /\ permission_mode' = mode
  /\ sent' = Append(sent, SystemEvent("config"))
  /\ UNCHANGED <<kind, session_id, sdkVars, gateVars, cliVars, wsVars, taskVars,
                 out, turn, nmsg>>

\* main.py 479/507 and 589-599: json.loads raises; the handler reports the
\* error and leaves through the finally clause
ReceiveMalformed(max_ctl) ==
  /\ Control(max_ctl)
  /\ sent' = Append(sent, SystemEvent("error"))
  /\ RunnerStop
  /\ ws' = "closing"
  /\ UNCHANGED <<kind, permission_mode, session_id, client, current_tool_use_id,
                 permission_event_queue, pending_tool_use_ids, message_queue,
                 sdk_done, sdk_task, sdk_cancel, gateVars, yielded, ws_open,
                 ws_stop_requested, taskVars, out, turn, nmsg>>

\* main.py 587-599: the client disconnects
Disconnect(max_ctl) ==
  /\ Control(max_ctl)
  /\ ws_open' = FALSE
  /\ RunnerStop
  /\ ws' = "closing"
  /\ UNCHANGED <<kind, permission_mode, session_id, client, current_tool_use_id,
                 permission_event_queue, pending_tool_use_ids, message_queue,
                 sdk_done, sdk_task, sdk_cancel, gateVars, yielded,
                 ws_stop_requested, taskVars, out, sent, turn, nmsg>>

\* main.py 599-601: runner.stop() has returned and the endpoint returns
Closed ==
  /\ ws = "closing"
  /\ RunnerStopReturns
  /\ ws' = "closed"
  /\ ws_open' = FALSE
  /\ UNCHANGED <<kind, permission_mode, session_id, sdkVars, gateVars, yielded,
                 ws_stop_requested, taskVars, out, sent, envVars>>

\* ------------------------------------------------------------ specifications
InitWith(kinds, modes, tokens) ==
  /\ Init
  /\ kind \in kinds
  /\ permission_mode \in modes
  /\ session_id \in tokens

\* --- bounds of the environment
MaxTurns == 1
MaxMsgs == 1
MaxCtl == 2
FewCtl == 1
CorrMsgs == 3

\* --- SpecGate: one tool call of the SDK runner and the decisions and stops
\* the client can send while it waits
GateTools == {"Read", "Write"}
GateInputs == {MkInput("/a", "", "")}
GateMessages ==
  {AssistantToolUse("toolu_1", "Write", MkInput("/a", "", "")), ResultMessage("sess_B")}
GateDecisionIds == {"toolu_1", "toolu_2"}

InitGate == InitWith({"sdk"}, {"default"}, {None})

NextGate ==
  \/ \E t \in GateTools, i \in GateInputs : CanUseTool(t, i)
  \/ CanUseToolResume
  \/ RunSdkConnect
  \/ \E m \in GateMessages : RunSdkReceive(m, MaxMsgs)
  \/ RunSdkCancelled
  \/ RunBegin
  \/ RunSpawn
  \/ RunLoop
  \/ RunAfterPermission
  \/ RunPoll
  \/ TaskCancelled
  \/ RunClosed
  \/ RunFinallyDone
  \/ ReceiveMessage(MaxTurns)
  \/ TurnOver
  \/ ReceiveStop(MaxCtl)
  \/ StopCancelsTask
  \/ StopSendsStopped
  \/ \E id \in GateDecisionIds, allowed \in BOOLEAN :
       ReceivePermissionResponse(id, allowed, MaxCtl)

SpecGate == InitGate /\ [][NextGate]_vars

\* --- SpecModes: the gate's first decision for every tool name under every
\* permission mode, with stops and mode changes
ModesInputs == {MkInput("/a", "", ""), MkInput("", "ls", "x")}
\* the gate calls of the runtime: every tool name, and Read with two inputs
ModesCalls ==
  {c \in ToolNames \X ModesInputs : c[1] = "Read" \/ c[2] = MkInput("/a", "", "")}
ModesMessages == {AssistantToolUse("toolu_1", "Write", MkInput("/a", "", ""))}

InitModes == InitWith({"sdk"}, ModeValues, {None})

NextModes ==
  \/ \E c \in ModesCalls : CanUseTool(c[1], c[2])
  \/ CanUseToolResume
  \/ RunSdkConnect
  \/ \E m \in ModesMessages : RunSdkReceive(m, MaxMsgs)
  \/ RunSdkCancelled
  \/ RunBegin
  \/ RunSpawn
  \/ RunLoop
  \/ RunAfterPermission
  \/ RunPoll
  \/ TaskCancelled
  \/ RunClosed
  \/ RunFinallyDone
  \/ ReceiveMessage(MaxTurns)
  \/ TurnOver
  \/ ReceiveStop(FewCtl)
  \/ StopCancelsTask
  \/ StopSendsStopped
  \/ \E mode \in ModeValues : ReceiveSetPermissionMode(mode, FewCtl)

SpecModes == InitModes /\ [][NextModes]_vars


\* --- SpecWs: one connection of either runner kind, with stops, malformed
\* frames and disconnects
WsMessages ==
  {AssistantToolUse("toolu_1", "Write", MkInput("/a", "", "")), ResultMessage("sess_B")}

InitWs == InitWith({"sdk", "cli"}, {"default"}, {None, "sess_A"})

NextWs ==
  \/ CanUseTool("Write", MkInput("/a", "", ""))
  \/ CanUseToolResume
  \/ RunSdkConnect
  \/ \E m \in WsMessages : RunSdkReceive(m, MaxMsgs)
  \/ RunSdkCancelled
  \/ RunBegin
  \/ RunSpawn
  \/ RunLoop
  \/ RunAfterPermission
  \/ RunPoll
  \/ TaskCancelled
  \/ RunClosed
  \/ RunFinallyDone
  \/ CliBegin
  \/ CliRead(MaxMsgs)
  \/ CliResume
  \/ ReceiveMessage(MaxTurns)
  \/ TurnOver
  \/ ReceiveStop(FewCtl)
  \/ StopCancelsTask
  \/ StopSendsStopped
  \/ ReceiveMalformed(FewCtl)
  \/ Disconnect(FewCtl)
  \/ Closed

SpecWs == InitWs /\ [][NextWs]_vars

\* --- SpecScenario: in mode default the agent emits a Read tool-use and then a
\* Write tool-use; the client answers the permission request it is sent
ScenarioScript ==
  <<AssistantToolUse("toolu_1", "Read", MkInput("/a", "", "")),
    UserToolResult("toolu_1"),
    AssistantToolUse("toolu_2", "Write", MkInput("/b", "", "")),
    UserToolResult("toolu_2"),
    ResultMessage("sess_B")>>

\* the runtime has the gate's answer for the tool-use block m
GateAnswered(m) ==
  /\ gate.pc = "idle"
  /\ gate_result # NoResult
  /\ gate_result.behavior = "allow" => gate_result.updated_input = m.input

\* the runtime calls the gate for the tool-use block it has just streamed
ScenarioCall ==
  /\ nmsg \in DOMAIN ScenarioScript
  /\ ScenarioScript[nmsg].block = "tool_use"
  /\ ~GateAnswered(ScenarioScript[nmsg])
  /\ CanUseTool(ScenarioScript[nmsg].name, ScenarioScript[nmsg].input)

\* the runtime streams its next message once the gate has answered
ScenarioReceive ==
  /\ nmsg < Len(ScenarioScript)
  /\ (nmsg > 0 /\ ScenarioScript[nmsg].block = "tool_use") => GateAnswered(ScenarioScript[nmsg])
  /\ RunSdkReceive(ScenarioScript[nmsg + 1], Len(ScenarioScript))

\* the client answers a permission request it has been sent, with that request's id
ScenarioResponse ==
  \E i \in DOMAIN sent, allowed \in BOOLEAN :
    /\ sent[i].type = "permission_request"
    /\ ReceivePermissionResponse(sent[i].tool_use_id, allowed, MaxCtl)

InitScenario == InitWith({"sdk"}, {"default"}, {None, "sess_A"})

NextScenario ==
  \/ ScenarioCall
  \/ CanUseToolResume
  \/ RunSdkConnect
  \/ ScenarioReceive
  \/ RunBegin
  \/ RunSpawn
  \/ RunLoop
  \/ RunAfterPermission
  \/ RunPoll
  \/ ReceiveMessage(MaxTurns)
  \/ TurnOver
  \/ ScenarioResponse

SpecScenario == InitScenario /\ [][NextScenario]_vars

\* every task that can run is run, and the runtime keeps streaming
SpecScenarioFair ==
  /\ SpecScenario
  /\ WF_vars(ScenarioCall)
  /\ WF_vars(CanUseToolResume)
  /\ WF_vars(ScenarioReceive)
  /\ WF_vars(RunLoop)
  /\ WF_vars(RunAfterPermission)
  /\ WF_vars(RunPoll)

\* --- SpecCorr: the correlator map under tool uses that share a fingerprint
\* or an id, tool results, and gate checks in between.  The streaming task is
\* left suspended in its poll, so message_queue and permission_event_queue hold
\* everything the turn has produced.
CorrCalls == {<<"Write", MkInput("/a", "", "")>>, <<"Bash", MkInput("", "ls", "")>>}
CorrMessages ==
  {AssistantToolUse(id, c[1], c[2]) : id \in ToolUseIds, c \in CorrCalls}
    \cup {UserToolResult(id) : id \in ToolUseIds}

InitCorr == InitWith({"sdk"}, {"default"}, {None})

NextCorr ==
  \/ \E c \in CorrCalls : CanUseTool(c[1], c[2])
  \/ CanUseToolResume
  \/ RunSdkConnect
  \/ \E m \in CorrMessages : RunSdkReceive(m, CorrMsgs)
  \/ RunBegin
  \/ RunSpawn
  \/ ReceiveMessage(MaxTurns)
  \/ \E id \in ToolUseIds : ReceivePermissionResponse(id, TRUE, FewCtl)

SpecCorr == InitCorr /\ [][NextCorr]_vars

\* the event loop runs every task that can run: the handler's stop branch, the
\* cancelled streaming task and the cancelled background task make progress
SpecWsFair ==
  /\ SpecWs
  /\ WF_vars(StopCancelsTask)
  /\ WF_vars(TaskCancelled)
  /\ WF_vars(RunSdkCancelled)
  /\ WF_vars(RunFinallyDone)
  /\ WF_vars(StopSendsStopped)

\* the scheduler runs a task whose awaited future is done: the gate resumes
SpecGateFair == SpecGate /\ WF_vars(CanUseToolResume)

\* ------------------------------------------------------------ claims C1, C2, C10

\* C1: an outstanding permission wait is resolved only by a decision whose
\* invocation id equals the id of the outstanding request; a decision carrying
\* any other id leaves the wait outstanding.
C1_OnlyMatchingIdResolves ==
  [][\A id \in GateDecisionIds, allowed \in BOOLEAN :
       (pending_permission = "pending" /\ id # current_tool_use_id
          /\ ReceivePermissionResponse(id, allowed, MaxCtl))
       => pending_permission' = "pending"]_vars

\* C2: a stop received while the gate is suspended on its wait cancels the wait
\* in the same step; the gate then returns a deny result without the interrupt
\* signal, leaves no wait behind, and does not stay suspended.
C2_StopCancelsWait ==
  /\ [][(gate.pc = "waiting" /\ pending_permission = "pending" /\ ReceiveStop(MaxCtl))
         => pending_permission' = "cancelled"]_vars
  /\ [][(gate.pc = "waiting" /\ pending_permission = "cancelled" /\ gate'.pc = "idle")
         => /\ gate_result' = PermissionResultDeny("Cancelled", FALSE)
            /\ pending_permission' = None
            /\ current_tool_use_id' = None]_vars
  /\ [](gate.pc = "waiting" /\ stop_requested => pending_permission = "cancelled")
  /\ (gate.pc = "waiting" /\ stop_requested) ~> (gate.pc = "idle")

C2_Witness ==
  /\ stop_requested
  /\ gate.pc = "idle"
  /\ gate_result = PermissionResultDeny("Cancelled", FALSE)
  /\ pending_permission = None
  /\ sdk_task = "recv"

\* C10: when the wait is resolved with allowed = true and the runtime has not
\* cancelled the call, the gate returns allow with exactly the input it was
\* called with; resolved with allowed = false, it returns a deny result with a
\* non-empty reason and no interrupt signal.
C10_ResolvedResult ==
  [][(gate.pc = "waiting" /\ ~gate.cancel /\ gate'.pc = "idle")
       => /\ pending_permission = "True" =>
               gate_result' = [behavior |-> "allow", updated_input |-> gate.tool_input,
                               message |-> "", interrupt |-> FALSE]
          /\ pending_permission = "False" =>
               /\ gate_result'.behavior = "deny"
               /\ gate_result'.message # ""
               /\ ~gate_result'.interrupt]_vars

C10_Witness ==
  /\ gate.pc = "idle"
  /\ gate_result.behavior = "allow"
  /\ gate_result.updated_input = MkInput("/a", "", "")
  /\ Len(out) > 1 /\ out[Len(out)].type = "permission_request"

\* ------------------------------------------------------------ claims C3, C8, C9

\* what every call of the gate leaves alone: the steps of the other tasks fail it
GateStep ==
  gate.pc = "idle" /\ sdk_task = "recv" /\ UNCHANGED <<wsVars, taskVars, envVars, sdk_task>>

\* C3: whenever the gate is invoked while the stop flag is set, it returns a
\* deny result carrying the interrupt signal, for every tool name and every
\* permission mode; it publishes no permission request and creates no wait.
C3_StoppedGateDenies ==
  [][(stop_requested /\ \E c \in ModesCalls : CanUseTool(c[1], c[2]))
       => /\ gate_result' = [behavior |-> "deny", updated_input |-> NoInput,
                             message |-> "Operation stopped by user", interrupt |-> TRUE]
          /\ UNCHANGED <<permission_event_queue, pending_permission,
                         current_tool_use_id, gate>>]_vars

C3_Witness ==
  /\ stop_requested
  /\ permission_mode = "bypassPermissions"
  /\ gate_result.behavior = "deny" /\ gate_result.interrupt
  /\ permission_event_queue = <<>> /\ pending_permission = None

\* C8: for every tool name and each of the four modes the auto-approve decision
\* depends on (tool name, mode) only and matches the table: every tool in
\* bypassPermissions, the read-only set in plan and default, the read-only set
\* plus Edit, Write and NotebookEdit in acceptEdits; the gate asks exactly for
\* the other tools.
C8_ClassificationTable ==
  [][GateStep => \A c \in ModesCalls :
       (~stop_requested /\ permission_mode \in Modes /\ CanUseTool(c[1], c[2]))
       => LET auto == CASE permission_mode = "bypassPermissions" -> TRUE
                        [] permission_mode \in {"plan", "default"} -> c[1] \in SAFE_TOOLS
                        [] permission_mode = "acceptEdits" ->
                             c[1] \in SAFE_TOOLS \cup {"Edit", "Write", "NotebookEdit"}
          IN  /\ auto = should_auto_approve(c[1], permission_mode)
              /\ auto <=> pending_permission' = None
              /\ auto <=> gate'.pc = "idle"
              /\ c[1] \in {"Bash", "Frobnicate"} => (auto <=> permission_mode = "bypassPermissions")
              /\ UNCHANGED <<permission_mode, pending_tool_use_ids, session_id, stop_requested>>]_vars

C8_Witness ==
  /\ permission_mode = "acceptEdits"
  /\ gate.pc = "idle" /\ ~stop_requested
  /\ gate_result = PermissionResultAllow(MkInput("/a", "", ""))
  /\ sdk_task = "recv"

\* C9: with the stop flag clear and the tool auto-approved under the current
\* mode, the gate returns allow at once with the input it was given, publishes
\* no permission request, creates no wait, and leaves the wait slot, the
\* current invocation id and the correlator map unchanged.
C9_AutoApproveFrame ==
  [][GateStep => \A c \in ModesCalls :
       (~stop_requested /\ should_auto_approve(c[1], permission_mode)
          /\ CanUseTool(c[1], c[2]))
       => /\ gate_result' = [behavior |-> "allow", updated_input |-> c[2],
                             message |-> "", interrupt |-> FALSE]
          /\ gate' = gate /\ gate.pc = "idle"
          /\ UNCHANGED <<permission_event_queue, pending_permission,
                         current_tool_use_id, pending_tool_use_ids>>]_vars

C9_Witness ==
  /\ ~stop_requested
  /\ gate.pc = "idle"
  /\ gate_result = PermissionResultAllow(MkInput("", "ls", "x"))
  /\ pending_tool_use_ids # EmptyDict
  /\ pending_permission = None /\ current_tool_use_id = None

\* ------------------------------------------------------------ claims C4, C5, C6

IsStopped(e) == e.type = "system" /\ e.subtype = "stopped"

\* C4: in the SDK runner's outbound stream of a turn, nothing is emitted after
\* a system/stopped event.
C4_NothingAfterStopped ==
  kind = "sdk" => \A i \in DOMAIN out : IsStopped(out[i]) => i = Len(out)

\* C5: a stop control received while a turn is streaming makes the handler send
\* a system/stopped event, and no assistant or user event of that turn is sent
\* after it.
C5_StopSendsStoppedLast ==
  /\ [](\A i, j \in DOMAIN sent :
          (ws_stop_requested /\ IsStopped(sent[i]) /\ i < j)
          => sent[j].type \notin {"assistant", "user"})
  /\ (ws = "stopping" /\ ws_open) ~> (sent # <<>> /\ IsStopped(sent[Len(sent)]))

C5_Witness ==
  /\ kind = "sdk"
  /\ ws_stop_requested
  /\ Len(sent) >= 4
  /\ IsStopped(sent[Len(sent)])
  /\ \E i \in DOMAIN sent : sent[i].type = "permission_request"
  /\ \E i \in DOMAIN sent : sent[i].type = "assistant"

\* C6: after a turn that delivers a result event with a non-empty session token
\* T, the stored session token equals T, for the CLI runner and the SDK runner,
\* whatever token was stored before the turn.
C6_ResultTokenStored ==
  (/\ run_pc = "end"
   /\ out # <<>> /\ out[Len(out)].type = "result"
   /\ out[Len(out)].session_id \notin {None, ""}
   /\ sent # <<>> /\ sent[Len(sent)].type = "result")
  => session_id = out[Len(out)].session_id

\* ------------------------------------------------------------ claim C7

PermissionRequests == {i \in DOMAIN out : out[i].type = "permission_request"}
HasResult == \E i \in DOMAIN out : out[i].type = "result"

\* C7: in mode default, in a turn where the agent emits a Read tool-use and then
\* a Write tool-use, no permission_request is emitted for Read; exactly one is
\* emitted for Write, carrying the id of the Write tool-use block; after
\* permission_response{id, allowed: true} the gate returns allow and the turn
\* goes on to a result event.
C7_ReadThenWrite ==
  /\ [](\A i \in PermissionRequests :
          /\ out[i].tool = "Write"
          /\ out[i].tool_use_id = "toolu_2"
          /\ out[i].input = MkInput("/b", "", ""))
  /\ [](Cardinality(PermissionRequests) <= 1)
  /\ [](HasResult => Cardinality(PermissionRequests) = 1)
  /\ [][\A i \in DOMAIN sent :
          (sent[i].type = "permission_request" /\ pending_permission = "pending"
             /\ ReceivePermissionResponse(sent[i].tool_use_id, TRUE, MaxCtl))
          => pending_permission' = "True"]_vars
  /\ [][(pending_permission = "True" /\ gate'.pc = "idle")
          => gate_result' = PermissionResultAllow(MkInput("/b", "", ""))]_vars
  /\ (pending_permission = "True") ~> HasResult

C7_Witness ==
  /\ HasResult
  /\ Cardinality(PermissionRequests) = 1
  /\ gate_result = PermissionResultAllow(MkInput("/b", "", ""))
  /\ sent # <<>> /\ sent[Len(sent)].type = "result"

\* ------------------------------------------------------------ claims C11 .. C14
\* Under SpecCorr message_queue is the sequence of events run_sdk has produced
\* in the turn, in order.

IsTrack(e) == e.type = "assistant" /\ e.subtype = "tool_use"
IsRelease(e, id) == e.type = "user" /\ e.subtype = "tool_result" /\ e.tool_use_id = id
EventKey(e) == e.tool \o ":" \o (IF e.input.file_path # "" THEN e.input.file_path ELSE e.input.command)
CallKey(c) == c[1] \o ":" \o (IF c[2].file_path # "" THEN c[2].file_path ELSE c[2].command)

\* position k holds the latest tracked tool use of its fingerprint, and that
\* tool use has had no result since
LiveTrack(k) ==
  /\ IsTrack(message_queue[k])
  /\ \A j \in DOMAIN message_queue :
       j > k => /\ ~(IsTrack(message_queue[j]) /\ EventKey(message_queue[j]) = EventKey(message_queue[k]))
                /\ ~IsRelease(message_queue[j], message_queue[k].tool_use_id)

\* the gate call c asks the user, as a step
Asks(c) == CanUseTool(c[1], c[2]) /\ gate'.pc = "waiting"

\* the request the step has published
Published == permission_event_queue'[Len(permission_event_queue')]

\* C11: when two tool uses with the same fingerprint are tracked before either
\* one's result arrives, the second overwrites the first's entry, and a gate
\* check for that fingerprint made after the second track (before the second's
\* result) publishes its request with the second id.
C11_LastWriteWins ==
  /\ [](\A j, k \in DOMAIN message_queue :
          (/\ j < k
           /\ IsTrack(message_queue[j]) /\ LiveTrack(k)
           /\ EventKey(message_queue[j]) = EventKey(message_queue[k])
           /\ message_queue[j].tool_use_id # message_queue[k].tool_use_id)
          => /\ EventKey(message_queue[k]) \in DOMAIN pending_tool_use_ids
             /\ pending_tool_use_ids[EventKey(message_queue[k])] = message_queue[k].tool_use_id)
  /\ [][\A c \in CorrCalls : \A j, k \in DOMAIN message_queue :
          (/\ j < k
           /\ IsTrack(message_queue[j]) /\ LiveTrack(k)
           /\ EventKey(message_queue[j]) = CallKey(c) /\ EventKey(message_queue[k]) = CallKey(c)
           /\ message_queue[j].tool_use_id # message_queue[k].tool_use_id
           /\ Asks(c))
          => Published.tool_use_id = message_queue[k].tool_use_id]_vars

C11_Witness ==
  /\ Len(message_queue) = 2
  /\ IsTrack(message_queue[1]) /\ IsTrack(message_queue[2])
  /\ EventKey(message_queue[1]) = "Write:/a" /\ EventKey(message_queue[2]) = "Write:/a"
  /\ message_queue[1].tool_use_id = "toolu_1" /\ message_queue[2].tool_use_id = "toolu_2"
  /\ gate.pc = "waiting" /\ gate.tool_name = "Write"
  /\ current_tool_use_id = "toolu_2"
  /\ permission_event_queue # <<>>
  /\ permission_event_queue[Len(permission_event_queue)].tool_use_id = "toolu_2"

\* C12: after a tool use with fingerprint F and id i has been tracked, every
\* gate check that yields F resolves to i, as long as no result for i has been
\* processed and no later tool use with fingerprint F has been tracked.
C12_ResolveTracked ==
  [][\A c \in CorrCalls : \A k \in DOMAIN message_queue :
       (LiveTrack(k) /\ EventKey(message_queue[k]) = CallKey(c) /\ Asks(c))
       => /\ current_tool_use_id' = message_queue[k].tool_use_id
          /\ Published = [tool_use_id |-> message_queue[k].tool_use_id,
                          tool_name |-> c[1], tool_input |-> c[2]]]_vars

C12_Witness ==
  /\ Len(message_queue) = 3
  /\ LiveTrack(1) /\ EventKey(message_queue[1]) = "Bash:ls"
  /\ message_queue[1].tool_use_id = "toolu_2"
  /\ gate.pc = "waiting" /\ gate.tool_name = "Bash"
  /\ current_tool_use_id = "toolu_2"

\* C13: processing a tool result for id i removes every correlator entry whose
\* value is i, also when several fingerprints map to i, and no entry mapped to
\* another id; afterwards a gate check for a removed fingerprint misses.
C13_ReleaseByValue ==
  /\ [][\A i \in ToolUseIds :
          RunSdkReceive(UserToolResult(i), CorrMsgs)
          => /\ DOMAIN pending_tool_use_ids' =
                  {f \in DOMAIN pending_tool_use_ids : pending_tool_use_ids[f] # i}
             /\ \A f \in DOMAIN pending_tool_use_ids' :
                  pending_tool_use_ids'[f] = pending_tool_use_ids[f]]_vars
  /\ [][\A c \in CorrCalls : \A k \in DOMAIN message_queue :
          (/\ IsTrack(message_queue[k]) /\ EventKey(message_queue[k]) = CallKey(c)
           /\ \A j \in DOMAIN message_queue : j > k => ~IsTrack(message_queue[j])
           /\ \E j \in DOMAIN message_queue :
                j > k /\ IsRelease(message_queue[j], message_queue[k].tool_use_id)
           /\ Asks(c))
          => current_tool_use_id' \notin ToolUseIds]_vars

C13_Witness ==
  /\ Len(message_queue) = 3
  /\ IsTrack(message_queue[1]) /\ IsTrack(message_queue[2])
  /\ EventKey(message_queue[1]) # EventKey(message_queue[2])
  /\ message_queue[1].tool_use_id = "toolu_1" /\ message_queue[2].tool_use_id = "toolu_1"
  /\ IsRelease(message_queue[3], "toolu_1")
  /\ pending_tool_use_ids = EmptyDict
  /\ gate.pc = "waiting" /\ current_tool_use_id \notin ToolUseIds

\* C14: when the gate needs approval and its fingerprint has no entry in the
\* correlator map, the gate makes up a fresh non-empty id, publishes exactly
\* one permission request carrying it and suspends on its wait; the correlator
\* map is unchanged.
C14_MissSynthesizes ==
  [][\A c \in CorrCalls :
       (CallKey(c) \notin DOMAIN pending_tool_use_ids /\ CanUseTool(c[1], c[2]))
       => /\ current_tool_use_id' \notin {None, ""}
          /\ \A f \in DOMAIN pending_tool_use_ids : pending_tool_use_ids[f] # current_tool_use_id'
          /\ permission_event_queue' =
               Append(permission_event_queue,
                      [tool_use_id |-> current_tool_use_id', tool_name |-> c[1],
                       tool_input |-> c[2]])
          /\ gate'.pc = "waiting" /\ pending_permission' = "pending"
          /\ pending_tool_use_ids' = pending_tool_use_ids]_vars

C14_Witness ==
  /\ gate.pc = "waiting" /\ gate.tool_name = "Bash"
  /\ current_tool_use_id = "toolu_gen"
  /\ pending_permission = "pending"
  /\ permission_event_queue =
       <<[tool_use_id |-> "toolu_gen", tool_name |-> "Bash", tool_input |-> MkInput("", "ls", "")]>>
  /\ "Write:/a" \in DOMAIN pending_tool_use_ids

\* ------------------------------------------------------------ claim C19

\* C19: when the agent process or SDK cannot be started, the outbound stream of
\* run() is exactly one system/error event and then ends, for the CLI runner
\* and for the SDK runner.
C19_StartFailureSingleError ==
  (/\ run_pc = "end"
   /\ ~ws_stop_requested /\ ws \in {"inner", "outer"}
   /\ nmsg = 0
   /\ \E i \in DOMAIN out : out[i].type = "system" /\ out[i].subtype = "error")
  => out = <<[type |-> "system", subtype |-> "error", tool_use_id |-> None, tool |-> None,
              input |-> NoInput, session_id |-> None]>>

\* ------------------------------------------------------------ claim C18

\* C18: a control message that does not decode as JSON, between turns or while
\* a turn is streaming, is reported as a system/error event and does not end
\* the session: the handler keeps accepting control messages and the runner is
\* not stopped.
C18_MalformedKeepsSession ==
  [][ReceiveMalformed(FewCtl)
       => /\ sent' = Append(sent, [type |-> "system", subtype |-> "error", tool_use_id |-> None,
                                   tool |-> None, input |-> NoInput, session_id |-> None])
          /\ ws' \in {"outer", "inner"}
          /\ stop_requested' = stop_requested
          /\ pending_permission' = pending_permission
          /\ process' = process]_vars

\* ------------------------------------------------------------ claim C17

\* C17: when run() ends before its background task has completed (cancelled
\* while polling, or abandoned by the consumer after a stop), the background
\* task is cancelled and awaited first: run() has never ended while its
\* background task is still running.
C17_NoOrphanedBackgroundTask ==
  /\ run_pc = "end" => sdk_task \in {"none", "done"}
  /\ run_pc = "fin" => (sdk_cancel \/ sdk_task = "done")

C17_Witness ==
  /\ kind = "sdk"
  /\ run_pc = "end"
  /\ sdk_task = "done"
  /\ client
  /\ ws_stop_requested

\* ------------------------------------------------------------ the multiplexer
\* One SDK session in default mode whose turns are never stopped: the runtime
\* sends text, a tool use and the result, may raise, and the gate is asked about
\* a tool that needs a decision; the client answers permission requests.

MuxMsgs == 2

MuxCalls == {<<"Write", MkInput("/a", "", "")>>}

MuxMessages == {AssistantText, AssistantToolUse("toolu_1", "Write", MkInput("/a", "", "")),
                ResultMessage("sess_B")}

InitMux == InitWith({"sdk"}, {"default"}, {None})

NextMux ==
  \/ \E c \in MuxCalls : CanUseTool(c[1], c[2])
  \/ CanUseToolResume
  \/ RunSdkConnect
  \/ \E m \in MuxMessages : RunSdkReceive(m, MuxMsgs)
  \/ RunSdkError
  \/ RunBegin
  \/ RunSpawn
  \/ RunLoop
  \/ RunAfterPermission
  \/ RunPoll
  \/ ReceiveMessage(MaxTurns)
  \/ TurnOver
  \/ \E allowed \in BOOLEAN : ReceivePermissionResponse("toolu_1", allowed, FewCtl)

SpecMux == InitMux /\ [][NextMux]_vars

\* the event loop resumes the generator whenever its consumer asks for the next
\* event, and the poll of the message queue returns within its timeout
SpecMuxFair ==
  /\ SpecMux
  /\ WF_vars(RunLoop)
  /\ WF_vars(RunAfterPermission)
  /\ WF_vars(RunPoll)

\* ------------------------------------------------------------ claim C15

\* C15: the multiplexer loop goes on while the background task has not signalled
\* completion or a channel is non-empty, and ends once completion is signalled
\* and both channels are empty; so when run() has ended in a turn that was not
\* cancelled nothing is left on either channel, and once the background task
\* has completed run() eventually ends.
C15_LoopDrainsThenEnds ==
  /\ [][RunLoop => (run_pc' = "end" <=> (sdk_done /\ message_queue = <<>>
                                          /\ permission_event_queue = <<>>))]_vars
  /\ [](run_pc = "end" => (sdk_done /\ message_queue = <<>>
                           /\ permission_event_queue = <<>>))
  /\ ((sdk_done /\ run_pc \in {"poll", "y_msg", "y_perm"}) ~> run_pc = "end")

C15_Witness ==
  /\ sdk_done
  /\ run_pc = "poll"
  /\ message_queue # <<>>
  /\ permission_event_queue # <<>>

\* ------------------------------------------------------------ claim C16

IsMessageEvent(e) == e.type # "permission_request"

\* the events run() has yielded after its init event
OutAfterInit == IF out = <<>> THEN <<>> ELSE Tail(out)

\* the agent-output events of the turn, emitted ones first, then the queued ones
MsgStream == SelectSeq(OutAfterInit, IsMessageEvent) \o message_queue

\* the permission requests of the turn, emitted ones first, then the queued ones
PermStream ==
  SelectSeq(OutAfterInit, LAMBDA e : ~IsMessageEvent(e))
    \o [i \in DOMAIN permission_event_queue |->
          PermissionRequestEvent(permission_event_queue[i])]

\* C16: within one source the outbound order is FIFO: the agent-output events
\* leave run() in the order run_sdk produced them, without loss, duplication or
\* reordering, and the permission requests in the order the gate published them.
C16_FifoPerSource ==
  /\ [][\/ MsgStream' = MsgStream
        \/ \E m \in MuxMessages :
             RunSdkReceive(m, MuxMsgs) /\ MsgStream' = MsgStream \o transform_events(m)
        \/ (RunSdkError \/ RunSdkConnect)
             /\ MsgStream' = Append(MsgStream, SystemEvent("error"))
        \/ ReceiveMessage(MaxTurns) /\ MsgStream' = <<>>]_vars
  /\ [][\/ PermStream' = PermStream
        \/ (\E c \in MuxCalls : CanUseTool(c[1], c[2]))
             /\ PermStream' = Append(PermStream, PermissionRequestEvent(Published))
        \/ ReceiveMessage(MaxTurns) /\ PermStream' = <<>>]_vars
  /\ [](run_pc = "end" => /\ MsgStream = SelectSeq(OutAfterInit, IsMessageEvent)
                          /\ PermStream = SelectSeq(OutAfterInit, LAMBDA e : ~IsMessageEvent(e)))

C16_Witness ==
  /\ run_pc = "end"
  /\ PermissionRequests # {}
  /\ \E i, j \in DOMAIN out :
       /\ 1 < i /\ i < j
       /\ IsMessageEvent(out[i]) /\ IsMessageEvent(out[j])
       /\ out[i] # out[j]

\* ------------------------------------------------------------ a failing turn
\* One SDK session in default mode over two turns: the runtime sends text or
\* raises, the gate may be waiting for a decision when it does.

ErrTurns == 2

ErrMessages == {AssistantText, ResultMessage("sess_B")}

NextErr ==
  \/ \E c \in MuxCalls : CanUseTool(c[1], c[2])
  \/ CanUseToolResume
  \/ RunSdkConnect
  \/ \E m \in ErrMessages : RunSdkReceive(m, MaxMsgs)
  \/ RunSdkError
  \/ RunBegin
  \/ RunSpawn
  \/ RunLoop
  \/ RunAfterPermission
  \/ RunPoll
  \/ ReceiveMessage(ErrTurns)
  \/ TurnOver
  \/ ReceivePermissionResponse("toolu_1", TRUE, FewCtl)

SpecErr == InitMux /\ [][NextErr]_vars

\* as SpecMuxFair; the event loop also resumes the gate whose wait has ended
SpecErrFair ==
  /\ SpecErr
  /\ WF_vars(RunLoop)
  /\ WF_vars(RunAfterPermission)
  /\ WF_vars(RunPoll)
  /\ WF_vars(CanUseToolResume)
  /\ WF_vars(TurnOver)

\* ------------------------------------------------------------ claim C20

IsError(e) == e.type = "system" /\ e.subtype = "error"

ErrorCount(events) == Len(SelectSeq(events, IsError))

\* C20: when the runtime raises during a turn, run_sdk catches it: one
\* system/error event is produced and the completion signal is set; the
\* multiplexer then drains and run() ends normally with exactly one error
\* event emitted and sent, and the handler can start a later turn.
C20_RuntimeErrorIsOneEvent ==
  /\ [][RunSdkError => /\ sdk_done'
                       /\ sdk_task' = "done"
                       /\ ErrorCount(MsgStream') = 1]_vars
  /\ [](ErrorCount(MsgStream) <= 1)
  /\ ((sdk_done /\ run_pc \in {"poll", "y_msg", "y_perm"} /\ ErrorCount(MsgStream) = 1)
        ~> (/\ run_pc = "end"
            /\ streaming_task = "done"
            /\ ws \in {"inner", "outer"}
            /\ ErrorCount(out) = 1
            /\ ErrorCount(sent) = 1))
  /\ ((run_pc = "end" /\ ErrorCount(out) = 1 /\ turn < ErrTurns)
        ~> ENABLED ReceiveMessage(ErrTurns))

C20_Witness ==
  /\ turn = 2
  /\ run_pc = "start"
  /\ client

\* ------------------------------------------------------------ decisions without a wait
\* SpecGate with decisions that reach the runner back to back.

NextDecide ==
  \/ NextGate
  \/ \E id \in GateDecisionIds, allowed \in BOOLEAN :
       ReceivePermissionResponseBuffered(id, allowed, MaxCtl)

SpecDecide == InitGate /\ [][NextDecide]_vars

\* ------------------------------------------------------------ claim C21

\* C21: a permission decision that arrives when no wait is outstanding (never
\* requested, already resolved, already cancelled) changes nothing in the
\* session: the wait slot and so the first decision's outcome, the current id,
\* the stop flag, the correlator map and the queues stay as they are, and the
\* handler goes on receiving.
C21_DecisionWithoutWaitIsNoOp ==
  [][(/\ pending_permission # "pending"
      /\ \E id \in GateDecisionIds, allowed \in BOOLEAN :
           \/ ReceivePermissionResponse(id, allowed, MaxCtl)
           \/ ReceivePermissionResponseBuffered(id, allowed, MaxCtl))
     => /\ UNCHANGED <<pending_permission, current_tool_use_id, stop_requested,
                       pending_tool_use_ids, permission_event_queue, message_queue,
                       gate, gate_result, sent>>
        /\ ws' = ws]_vars

\* a decision has arrived before any turn: no wait was ever requested
C21_Witness ==
  /\ turn = 0
  /\ nctl >= 1
  /\ ~stop_requested
  /\ pending_permission = None
  /\ ws = "outer"

\* ------------------------------------------------------------ claim C22

\* the gate checks whose classification differs between the modes
C22Calls == {c \in ModesCalls : c[1] \in {"Read", "Write", "Bash"} /\ c[2] = MkInput("/a", "", "")}

\* C22: a mode change stores the new mode and is not retroactive: a gate call
\* that is suspended stays suspended, neither allowed nor denied; the next gate
\* check is classified under the mode stored at that moment.
C22_ModeChangeNotRetroactive ==
  /\ [][\A mode \in ModeValues :
          ReceiveSetPermissionMode(mode, FewCtl)
            => /\ permission_mode' = mode
               /\ UNCHANGED <<gate, pending_permission, gate_result,
                              current_tool_use_id, permission_event_queue>>]_vars
  /\ [][\A c \in C22Calls :
          CanUseTool(c[1], c[2])
            => (gate'.pc = "waiting"
                  <=> (~stop_requested /\ ~should_auto_approve(c[1], permission_mode)))]_vars

\* a call suspended under an asking mode is still suspended after the mode has
\* become bypassPermissions
C22_Witness ==
  /\ permission_mode = "bypassPermissions"
  /\ gate.pc = "waiting"
  /\ pending_permission = "pending"
  /\ nctl >= 1

\* ------------------------------------------------------------ a turn in bypassPermissions
\* One SDK session that starts in default mode; between turns the client may
\* switch it to bypassPermissions; the runtime asks the gate about any tool.

BypassCalls == {<<"Read", MkInput("/a", "", "")>>, <<"Write", MkInput("/b", "", "")>>,
                <<"Bash", MkInput("", "ls", "")>>}

BypassMessages == {AssistantToolUse("toolu_1", "Write", MkInput("/b", "", "")),
                   ResultMessage("sess_B")}

\* main.py 578-585: set_permission_mode received in the outer loop
SetBypassBetweenTurns ==
  /\ ws = "outer"
  /\ ReceiveSetPermissionMode("bypassPermissions", FewCtl)

NextBypass ==
  \/ \E c \in BypassCalls : CanUseTool(c[1], c[2])
  \/ CanUseToolResume
  \/ RunSdkConnect
  \/ \E m \in BypassMessages : RunSdkReceive(m, MaxMsgs)
  \/ RunBegin
  \/ RunSpawn
  \/ RunLoop
  \/ RunAfterPermission
  \/ RunPoll
  \/ ReceiveMessage(MaxTurns)
  \/ TurnOver
  \/ SetBypassBetweenTurns

SpecBypass == InitMux /\ [][NextBypass]_vars

\* ------------------------------------------------------------ claim C23

\* C23: once the mode is bypassPermissions every gate check made while stop is
\* not requested returns allow at once and publishes no request, so a turn run
\* in that mode emits and sends no permission_request event.
C23_BypassAsksNothing ==
  /\ [][(/\ permission_mode = "bypassPermissions"
         /\ ~stop_requested
         /\ \E c \in BypassCalls : CanUseTool(c[1], c[2]))
        => /\ gate'.pc = "idle"
           /\ gate_result'.behavior = "allow"
           /\ UNCHANGED <<permission_event_queue, pending_permission>>]_vars
  /\ []((permission_mode = "bypassPermissions" /\ ws = "inner")
          => /\ permission_event_queue = <<>>
             /\ \A i \in DOMAIN out : out[i].type # "permission_request"
             /\ \A i \in DOMAIN sent : sent[i].type # "permission_request")

\* in a turn run in bypassPermissions the gate has allowed Bash and run() has ended
C23_Witness ==
  /\ permission_mode = "bypassPermissions"
  /\ ws = "inner"
  /\ run_pc = "end"
  /\ gate_result = PermissionResultAllow(MkInput("", "ls", ""))

\* ------------------------------------------------------------ claim C24

\* C24: in every reachable state the session's permission mode is one of
\* default, plan, acceptEdits, bypassPermissions, whatever the connection's
\* query parameter and the set_permission_mode messages carried.
C24_ModeInDomain == permission_mode \in Modes

\* ------------------------------------------------------------ the session token
\* A session of either runner over two turns, started with or without a token:
\* the runtime sends text, a result with a token or with an empty one, or
\* raises; the client sends every kind of control message.

TokenMessages == {AssistantText, ResultMessage("sess_B"), ResultMessage("")}

NextToken ==
  \/ CanUseTool("Write", MkInput("/a", "", ""))
  \/ CanUseToolResume
  \/ RunSdkConnect
  \/ \E m \in TokenMessages : RunSdkReceive(m, MaxMsgs)
  \/ RunSdkError
  \/ RunSdkCancelled
  \/ RunBegin
  \/ RunSpawn
  \/ RunLoop
  \/ RunAfterPermission
  \/ RunPoll
  \/ TaskCancelled
  \/ RunClosed
  \/ RunFinallyDone
  \/ CliBegin
  \/ CliRead(MaxMsgs)
  \/ CliResume
  \/ ReceiveMessage(ErrTurns)
  \/ TurnOver
  \/ ReceiveStop(FewCtl)
  \/ StopCancelsTask
  \/ StopSendsStopped
  \/ ReceivePermissionResponse("toolu_1", TRUE, FewCtl)
  \/ ReceiveSetPermissionMode("acceptEdits", FewCtl)
  \/ ReceiveOther(FewCtl)

SpecToken == InitWs /\ [][NextToken]_vars

\* ------------------------------------------------------------ claim C25

\* C25: the stored session token changes only in the step that processes a
\* result event carrying a non-empty token, and then becomes that token; every
\* other step (controls, other events, runtime errors, a result with an empty
\* token, the start of the next turn) leaves it as it is.
C25_TokenChangesOnlyOnResult ==
  [][session_id' # session_id
       => \/ /\ kind = "sdk"
             /\ \E m \in TokenMessages :
                  /\ m.kind = "result"
                  /\ m.token \notin {None, ""}
                  /\ RunSdkReceive(m, MaxMsgs)
                  /\ session_id' = m.token
          \/ /\ kind = "cli"
             /\ CliResume
             /\ yielded.type = "result"
             /\ yielded.session_id \notin {None, ""}
             /\ session_id' = yielded.session_id]_vars

\* a token taken from a result event is still stored when the next turn starts
C25_Witness ==
  /\ turn = 2
  /\ run_pc = "start"
  /\ session_id = "sess_B"

\* ------------------------------------------------------------ repeated stops
\* SpecWs with a client that sends stop more than once.

NextStop ==
  \/ NextWs
  \/ ReceiveStop(MaxCtl)

SpecStop == InitWs /\ [][NextStop]_vars

\* ------------------------------------------------------------ claim C26

\* C26: stop() is idempotent: while the stop flag is set no wait is unresolved,
\* and a stop() on a runner that is already stopped changes nothing: the flag
\* stays set, the slot and the result of the wait the first call cancelled stay
\* as they are, a terminated CLI process stays terminated.
C26_StopIdempotent ==
  /\ [](stop_requested => pending_permission # "pending")
  /\ \A fut \in {None, "pending", "True", "False", "cancelled"} :
       FutureAfterStop(FutureAfterStop(fut)) = FutureAfterStop(fut)
  /\ [][(/\ ReceiveStop(MaxCtl)
         /\ IF kind = "sdk" THEN stop_requested ELSE process = "none")
        => UNCHANGED <<stop_requested, pending_permission, current_tool_use_id,
                       gate, gate_result, process, sdkVars>>]_vars

\* the second of two stops is being handled; the wait the first one cancelled
\* has been denied
C26_Witness ==
  /\ kind = "sdk"
  /\ nctl = 2
  /\ ws = "stopping"
  /\ stop_requested
  /\ gate_result = PermissionResultDeny("Cancelled", FALSE)

\* ------------------------------------------------------------ concurrent gate calls
\* SpecGate with a runtime that asks about a second tool while the first call
\* is still waiting; it has at most two calls in flight.

NextConcurrent ==
  \/ NextGate
  \/ \E t \in GateTools, i \in GateInputs : ~gate.displaced /\ CanUseToolConcurrent(t, i)

SpecConcurrent == InitGate /\ [][NextConcurrent]_vars

\* ------------------------------------------------------------ claim C27

\* C27: a gate call made while an earlier call's wait is unresolved does not
\* take the wait slot from it: every suspended call waits on the future that is
\* in the slot, so a decision or a stop still reaches it.
C27_FirstWaitKeepsSlot == ~gate.displaced

\* ------------------------------------------------------------ the permission channel
\* SpecMux without runtime errors, and with a runtime that makes no gate call
\* while run() is suspended at the yield of a permission request: a request
\* found in the queue after that yield was already there when the iteration
\* read the queue.

NextDrain ==
  \/ \E c \in MuxCalls : run_pc # "y_perm" /\ CanUseTool(c[1], c[2])
  \/ CanUseToolResume
  \/ RunSdkConnect
  \/ \E m \in MuxMessages : RunSdkReceive(m, MuxMsgs)
  \/ RunBegin
  \/ RunSpawn
  \/ RunLoop
  \/ RunAfterPermission
  \/ RunPoll
  \/ ReceiveMessage(MaxTurns)
  \/ TurnOver
  \/ \E allowed \in BOOLEAN : ReceivePermissionResponse("toolu_1", allowed, FewCtl)

SpecDrain == InitMux /\ [][NextDrain]_vars

\* ------------------------------------------------------------ claim C28

\* C28: each iteration of the multiplexer loop empties the permission-request
\* channel before it polls the output-message channel: the poll is reached
\* only with no permission request left in the queue.
C28_PermissionsDrainedBeforePoll ==
  [][(run_pc # "poll" /\ run_pc' = "poll") => permission_event_queue' = <<>>]_vars

\* ------------------------------------------------------------ claim C29

\* C29: a correlator entry is removed when its id is consumed by a permission
\* decision: once the gate has returned with the client's decision for a
\* tracked id, no entry holds that id and a gate check for that fingerprint
\* misses.
C29_DecisionReleasesEntry ==
  [][(/\ CanUseToolResume
      /\ pending_permission \in {"True", "False"}
      /\ current_tool_use_id \in ToolUseIds)
     => /\ \A k \in DOMAIN pending_tool_use_ids' :
             pending_tool_use_ids'[k] # current_tool_use_id
        /\ dict_get(pending_tool_use_ids', fingerprint(gate.tool_name, gate.tool_input))
             = None]_vars

\* ------------------------------------------------------------ claim C30

\* C30: once stop() has set the stop flag the multiplexer loop lets no buffered
\* output event out: the only event run() still takes from the output-message
\* channel is the stopped event that run_sdk queued after the stop.  (With a
\* connected client stop() is suspended in client.interrupt() while run() goes
\* on.)
C30_StopSilencesBuffered ==
  [][(stop_requested /\ client /\ RunPoll) => IsStopped(Head(message_queue))]_vars

\* ------------------------------------------------------------ claim C31

\* C31: whenever no turn is in flight on the SDK runner (its background task
\* has not been created or has ended, in whatever way) the client handle is
\* cleared.
C31_ClientClearedBetweenTurns ==
  (kind = "sdk" /\ sdk_task \in {"none", "done"}) => ~client

\* ------------------------------------------------------------ claim C32

\* C32: every result event sent to the client carries the session token that
\* the runtime reported in that result, for both runners, whatever token the
\* session had stored before.
C32_DeliveredResultToken ==
  \A i \in DOMAIN sent :
    (/\ i \in DOMAIN out
     /\ sent[i].type = "result"
     /\ out[i].type = "result"
     /\ out[i].session_id \notin {None, ""})
    => sent[i].session_id = out[i].session_id

\* ------------------------------------------------------------ claim C33

\* C33: on one connection at most one streaming task is in flight: the handler
\* is back in its outer loop only when the task has finished (or was cancelled
\* and awaited), a turn starts only there, and a control received while a turn
\* is streaming, a message control included, starts no turn.
C33_OneTurnInFlight ==
  /\ [](ws = "outer" => streaming_task \in {"none", "done"})
  /\ [][turn' # turn => /\ ws = "outer"
                        /\ streaming_task # "running"
                        /\ streaming_task' = "running"
                        /\ turn' = turn + 1]_vars
  /\ [][(ws = "inner" /\ ReceiveOther(FewCtl))
        => UNCHANGED <<turn, streaming_task, run_pc, ws>>]_vars

\* a second turn has started after a turn that was stopped
C33_Witness ==
  /\ kind = "sdk"
  /\ turn = 2
  /\ streaming_task = "running"
  /\ run_pc = "start"
  /\ stop_requested

\* ------------------------------------------------------------ claim C34

PairMsgs == 4

PairMessages ==
  {AssistantToolUse(id, c[1], c[2]) : id \in ToolUseIds, c \in CorrCalls}
    \cup {UserToolResult(id) : id \in ToolUseIds}

NextPairs ==
  \/ ReceiveMessage(MaxTurns)
  \/ RunBegin
  \/ RunSpawn
  \/ RunSdkConnect
  \/ \E m \in PairMessages : RunSdkReceive(m, PairMsgs)

SpecPairs == InitCorr /\ [][NextPairs]_vars

\* ------------------------------------------------------------ claim C35

\* every tool use of the turn has its own id and a later result, and every
\* result comes after the tool use of its id
AllPaired ==
  /\ \A k \in DOMAIN message_queue :
       IsTrack(message_queue[k])
         => /\ \A j \in DOMAIN message_queue :
                 (j # k /\ IsTrack(message_queue[j]))
                   => message_queue[j].tool_use_id # message_queue[k].tool_use_id
            /\ \E j \in DOMAIN message_queue :
                 j > k /\ IsRelease(message_queue[j], message_queue[k].tool_use_id)
  /\ \A j \in DOMAIN message_queue :
       (message_queue[j].type = "user" /\ message_queue[j].subtype = "tool_result")
         => \E k \in DOMAIN message_queue :
              /\ k < j
              /\ IsTrack(message_queue[k])
              /\ message_queue[k].tool_use_id = message_queue[j].tool_use_id

\* C35: when every tracked tool use has had its result processed the
\* correlator map is empty, also when tool uses shared a fingerprint and
\* whatever the order of the results; a result for an id that no entry holds
\* (its entry was overwritten) removes nothing.
C35_AllReleasedMapEmpty ==
  /\ [](AllPaired => pending_tool_use_ids = EmptyDict)
  /\ [][\A id \in ToolUseIds :
          (/\ RunSdkReceive(UserToolResult(id), PairMsgs)
           /\ \A k \in DOMAIN pending_tool_use_ids : pending_tool_use_ids[k] # id)
          => pending_tool_use_ids' = pending_tool_use_ids]_vars

\* two tool uses with one fingerprint, the result of the second first
C35_Witness ==
  /\ Len(message_queue) = 4
  /\ AllPaired
  /\ IsTrack(message_queue[1]) /\ IsTrack(message_queue[2])
  /\ EventKey(message_queue[1]) = EventKey(message_queue[2])
  /\ IsRelease(message_queue[3], message_queue[2].tool_use_id)
  /\ IsRelease(message_queue[4], message_queue[1].tool_use_id)
  /\ pending_tool_use_ids = EmptyDict

\* ------------------------------------------------------------ fingerprints
\* One SDK turn in default mode without the multiplexer: the runtime streams a
\* tool use and asks the gate about a tool; the inputs have a file path, a
\* command, both, or neither with different other arguments.

KeyMsgs == 2

KeyCalls ==
  {<<"Write", MkInput("/a", "", "")>>, <<"Write", MkInput("/a", "ls", "")>>,
   <<"Bash", MkInput("", "ls", "")>>,
   <<"Frobnicate", MkInput("", "", "x")>>, <<"Frobnicate", MkInput("", "", "y")>>}

KeyMessages == {AssistantToolUse(id, c[1], c[2]) : id \in ToolUseIds, c \in KeyCalls}

NextKey ==
  \/ ReceiveMessage(MaxTurns)
  \/ RunBegin
  \/ RunSpawn
  \/ RunSdkConnect
  \/ \E m \in KeyMessages : RunSdkReceive(m, KeyMsgs)
  \/ \E c \in KeyCalls : CanUseTool(c[1], c[2])

SpecKey == InitCorr /\ [][NextKey]_vars

\* ------------------------------------------------------------ claim C36

\* the primary argument, as the claim states it
PrimaryArgument(input) ==
  IF input.file_path # "" THEN input.file_path
  ELSE IF input.command # "" THEN input.command
  ELSE ""

\* C36: track and the gate use the same fingerprint, name:p with p the file
\* path if non-empty, else the command if non-empty, else empty: a tool use is
\* tracked under that key and a gate check finds the id stored under it; two
\* inputs with neither field have one fingerprint whatever else they hold.
C36_SameFingerprint ==
  /\ [](\A c \in KeyCalls : fingerprint(c[1], c[2]) = c[1] \o ":" \o PrimaryArgument(c[2]))
  /\ [](fingerprint("Frobnicate", MkInput("", "", "x"))
          = fingerprint("Frobnicate", MkInput("", "", "y")))
  /\ [][\A m \in KeyMessages :
          RunSdkReceive(m, KeyMsgs)
            => pending_tool_use_ids'
                 = dict_set(pending_tool_use_ids, m.name \o ":" \o PrimaryArgument(m.input), m.id)]_vars
  /\ [][\A c \in KeyCalls :
          (Asks(c) /\ (c[1] \o ":" \o PrimaryArgument(c[2])) \in DOMAIN pending_tool_use_ids)
            => Published.tool_use_id
                 = pending_tool_use_ids[c[1] \o ":" \o PrimaryArgument(c[2])]]_vars

\* a tool use tracked with other = x is found by a gate check with other = y
C36_Witness ==
  /\ gate.pc = "waiting"
  /\ gate.tool_name = "Frobnicate"
  /\ gate.tool_input.other = "y"
  /\ Len(message_queue) = 1
  /\ message_queue[1].tool = "Frobnicate"
  /\ message_queue[1].input.other = "x"
  /\ current_tool_use_id = message_queue[1].tool_use_id

\* ------------------------------------------------------------ claim C37

\* the tool classes of the read-only set, by the names the runtime gives them
FileReadTools == {"Read"}
SearchTools == {"Glob", "Grep"}
WebTools == {"WebFetch", "WebSearch"}
McpResourceTools == {"ListMcpResources", "ReadMcpResource"}
OutputTailTools == {"BashOutput"}
TodoListReadTools == {"TodoRead"}
ReadOnlyClasses ==
  FileReadTools \cup SearchTools \cup WebTools \cup McpResourceTools \cup OutputTailTools

\* the names the gate allows at once under the stored mode
AutoApprovedNow == {t \in ToolNames : GateDecision(t, permission_mode, FALSE) = "auto"}

\* the gate checks of one tool of each kind
C37Calls ==
  {c \in ModesCalls : c[1] \in {"Read", "TodoRead", "Write", "Bash"}
                      /\ c[2] = MkInput("/a", "", "")}

CarryMessages == {AssistantText, ResultMessage("sess_B")}

InitCarry == InitWith({"sdk"}, {"default", "acceptEdits"}, {None})

NextCarry ==
  \/ CanUseTool("Write", MkInput("/a", "", ""))
  \/ CanUseToolResume
  \/ RunSdkConnect
  \/ \E m \in CarryMessages : RunSdkReceive(m, MaxMsgs)
  \/ RunSdkCancelled
  \/ RunBegin
  \/ RunSpawn
  \/ RunLoop
  \/ RunAfterPermission
  \/ RunPoll
  \/ TaskCancelled
  \/ RunClosed
  \/ RunFinallyDone
  \/ ReceiveMessage(ErrTurns)
  \/ TurnOver
  \/ ReceiveStop(FewCtl)
  \/ StopCancelsTask
  \/ StopSendsStopped

SpecCarry == InitCarry /\ [][NextCarry]_vars

\* ------------------------------------------------------------ claim C38

\* run() of the current turn has passed line 181 and the handler has received
\* no stop since the turn began
BegunUnstopped ==
  /\ kind = "sdk"
  /\ ws = "inner"
  /\ run_pc # "start"
  /\ ~ws_stop_requested

\* C38: a stop does not carry over to the next turn: run() clears the stop flag
\* when it begins, the flag stays false in a turn until that turn is stopped,
\* and the turn's gate checks are decided by the permission mode, none being
\* denied as stopped.
C38_StopDoesNotCarryOver ==
  /\ [][RunBegin => ~stop_requested']_vars
  /\ [](BegunUnstopped => ~stop_requested)
  /\ [][(BegunUnstopped /\ CanUseTool("Write", MkInput("/a", "", "")))
          => IF should_auto_approve("Write", permission_mode)
             THEN gate_result' = PermissionResultAllow(MkInput("/a", "", ""))
             ELSE gate'.pc = "waiting" /\ gate_result' = gate_result]_vars

\* a stop was received before the second turn began, and the second turn's gate
\* check has asked the user
C38_Witness ==
  /\ kind = "sdk"
  /\ turn = 2
  /\ ws = "inner"
  /\ nctl = 1
  /\ ~ws_stop_requested
  /\ ~stop_requested
  /\ gate.pc = "waiting"
  /\ permission_mode = "default"

\* ------------------------------------------------------------ turns of the CLI runner
\* One session of the CLI runner over two turns: the process prints up to
\* CliMsgs lines in a turn, and the client may stop.

CliMsgs == 3

InitCli == InitWith({"cli"}, {"default"}, {None})

NextCli ==
  \/ CliBegin
  \/ CliRead(CliMsgs)
  \/ CliResume
  \/ TaskCancelled
  \/ ReceiveMessage(ErrTurns)
  \/ TurnOver
  \/ ReceiveStop(FewCtl)
  \/ StopCancelsTask
  \/ StopSendsStopped

SpecCli == InitCli /\ [][NextCli]_vars

\* ------------------------------------------------------------ claim C39

\* the positions of out that hold a result event
ResultPositions == {i \in DOMAIN out : out[i].type = "result"}

\* C39: the CLI runner's run() emits the events in the order it read them, one
\* appended to the turn's output per line read; a result event is the last
\* event of its turn, the step after it ends the turn, and that step leaves the
\* process as it is: alive for the next turn unless the turn was stopped.
C39_ResultEndsCliTurn ==
  /\ [][CliRead(CliMsgs)
          => \/ out' = out
             \/ \E e \in CliEvents \cup {SystemEvent("error")} : out' = Append(out, e)]_vars
  /\ [](kind = "cli" => ResultPositions \subseteq {Len(out)})
  /\ [][(CliResume /\ yielded.type = "result")
          => /\ run_pc' = "end"
             /\ streaming_task' = "done"
             /\ UNCHANGED <<process, out, sent>>]_vars
  /\ []((/\ kind = "cli"
         /\ ws \in {"inner", "outer"}
         /\ ~ws_stop_requested
         /\ run_pc = "end"
         /\ ResultPositions # {})
          => process = "alive")

\* the second turn, on the process the first turn left alive, has emitted two
\* events and ended after the result
C39_Witness ==
  /\ kind = "cli"
  /\ turn = 2
  /\ nctl = 0
  /\ process = "alive"
  /\ run_pc = "end"
  /\ streaming_task = "done"
  /\ Len(out) = 2
  /\ out[1].type = "assistant"
  /\ out[2].type = "result"
  /\ nmsg = 2

\* ------------------------------------------------------------ claim C40

\* C40: with gate calls made one at a time, the wait slot and the current
\* invocation id are both set or both clear in every reachable state, and they
\* are set exactly while a gate call is suspended; the step in which the gate
\* returns, whatever it returns, clears both.
C40_SlotAndIdTogether ==
  /\ []((pending_permission # None) <=> (current_tool_use_id # None))
  /\ []((pending_permission # None) <=> (gate.pc = "waiting"))
  /\ [][CanUseToolResume
          => /\ gate.pc = "waiting"
             /\ gate'.pc = "idle"
             /\ gate_result'.behavior \in {"allow", "deny"}
             /\ pending_permission' = None
             /\ current_tool_use_id' = None]_vars

\* the user has denied a suspended call, the gate has returned, and the slot
\* and the id are clear
C40_Witness ==
  /\ gate.pc = "idle"
  /\ gate_result = PermissionResultDeny("User denied permission", FALSE)
  /\ pending_permission = None
  /\ current_tool_use_id = None
  /\ ~stop_requested

====
